---- MODULE Spec2Model ----
(***************************************************************************)
(* The Operator V7 (src/operator_v7.py): the message router on_receive,    *)
(* the SOS dispatch dispatch_sos, the triage-session manager, the watchdog *)
(* and the AI worker, as three cooperating tasks over the shared maps.     *)
(*                                                                         *)
(* Granularity: one step is one `with state_lock:` block, one radio send,  *)
(* one queue operation or one language-model call of the code, together    *)
(* with the local computation that follows it up to the next such point.   *)
(* Every time.sleep of the code is a point where the other tasks may run.  *)
(*                                                                         *)
(* Python dicts are functions with a finite domain (Put/Pop); the          *)
(* restricted list is kept as a sequence because the code depends on its   *)
(* insertion order (the numbered !cancel list).  None is "" for node ids   *)
(* and the empty sequence for optional records.  Message texts are         *)
(* sequences of words; display names and GPS positions are left out.       *)
(***************************************************************************)
EXTENDS Integers, Sequences, FiniteSets, TLC

\* ------------------------------------------------------------------ bounds
MaxPackets == 3
MaxTicks == 1
MaxChunks == 1
MaxCancelPackets == 8
MaxTriagePackets == 6
MaxGatePackets == 4
MaxWatchPackets == 3
MaxSweeps == 2
MaxAllPackets == 3
MaxRadioPackets == 2
MaxShutdownPackets == 2
MaxRestrictPackets == 4
MaxRolePackets == 4
MaxRelistPackets == 5

\* ------------------------------------------------------- program constants
CHANNEL_INDEX == 0
TRIAGE_TIMEOUT == 600
TRIAGE_MAX_EXCHANGES == 12
LOCKOUT_MINUTES == 120
MENU_911_TIMEOUT == 120
QUEUE_LIMIT == 15
HISTORY_LIMIT == 4
TRIM_HEAD == 2
STALE_WINDOW == 10
BOOT_TIME == 100

POLICE == "!aabbccdd"
FIRE == "!eeff0011"
EMS == "!22334455"
MyNode == "!0000beef"
Citizens == {"!n1", "!n2"}

RESPONDERS ==
    [t \in {"!sos", "!police", "!fire", "!ems", "!help"} |->
        CASE t = "!police" -> POLICE
          [] t = "!fire" -> FIRE
          [] t = "!ems" -> EMS
          [] OTHER -> ""]

\* [v for v in RESPONDERS.values() if v], in the dict's order
all_responders == <<POLICE, FIRE, EMS>>

SOS_TRIGGERS == <<"!police", "!fire", "!ems", "!help", "!sos">>

\* the menu table with its second and third rows exchanged
MENU_911_MAP_swapped ==
    ("1" :> "!fire") @@ ("2" :> "!police") @@ ("3" :> "!ems") @@
    ("4" :> "!help") @@ ("5" :> "false_alarm")

MENU_911_MAP ==
    ("1" :> "!fire") @@ ("2" :> "!ems") @@ ("3" :> "!police") @@
    ("4" :> "!help") @@ ("5" :> "false_alarm")

\* ----------------------------------------------------------- pure helpers
Range(s) == {s[i] : i \in DOMAIN s}

Has(d, k) == k \in DOMAIN d
Put(d, k, v) == [x \in (DOMAIN d) \cup {k} |-> IF x = k THEN v ELSE d[x]]
Pop(d, k) == [x \in (DOMAIN d) \ {k} |-> d[x]]
EmptyDict == [x \in {} |-> 0]

\* str.lower() on the words the model uses
LowerWord(wd) ==
    CASE wd = "!SOS" -> "!sos"
      [] wd = "!Safe" -> "!safe"
      [] OTHER -> wd

lower(m) == [i \in DOMAIN m |-> LowerWord(m[i])]

\* int() of the digit strings the model uses
DigitVal ==
    ("0" :> 0) @@ ("1" :> 1) @@ ("2" :> 2) @@ ("3" :> 3) @@ ("4" :> 4) @@
    ("5" :> 5)

isdigit(m) == Len(m) = 1 /\ m[1] \in DOMAIN DigitVal

is_cmd(m, tok) == Len(m) = 1 /\ m[1] = tok

RECURSIVE first_trigger(_, _)
first_trigger(m, i) ==
    IF i > Len(SOS_TRIGGERS) THEN ""
    ELSE IF Len(m) >= 1 /\ m[1] = SOS_TRIGGERS[i] THEN SOS_TRIGGERS[i]
    ELSE first_trigger(m, i + 1)

\* msg_lower == trigger or msg_lower.startswith(trigger + ' '); "" is None
match_trigger(msg_lower) == first_trigger(msg_lower, 1)

is_responder(sender) == sender \in Range(all_responders)

\* the comparison against the node number written without the "!" of an id
is_my_node_text(sender) == sender = "0000beef"

is_my_node(sender) == sender = MyNode

\* exchanges[:2] + exchanges[-(TRIAGE_MAX_EXCHANGES - 2):]
\* a trim that keeps the most recent TRIAGE_MAX_EXCHANGES entries only
TrimKeepRecent(exchanges) ==
    SubSeq(exchanges, Len(exchanges) - TRIAGE_MAX_EXCHANGES + 1, Len(exchanges))

TrimKeepTail(exchanges) ==
    SubSeq(exchanges, 1, TRIM_HEAD)
        \o SubSeq(exchanges, Len(exchanges) - (TRIAGE_MAX_EXCHANGES - TRIM_HEAD) + 1,
                  Len(exchanges))

trim_exchanges(exchanges) ==
    IF Len(exchanges) <= TRIAGE_MAX_EXCHANGES THEN exchanges
    ELSE TrimKeepTail(exchanges)

create_session(trigger, context, target, t) ==
    [trigger |-> trigger, context |-> context, dispatched_to |-> target,
     started_at |-> t, last_activity |-> t,
     exchanges |-> IF context # <<>>
                   THEN <<[ts |-> t, role |-> "citizen", msg |-> context]>>
                   ELSE <<>>]

\* ---------------------------------------------------------------- state
VARIABLES
    now,                  \* time.time(), in seconds
    ticks,                \* clock advances so far
    packets,              \* inbound packets delivered so far
    message_queue,        \* queue.Queue(): sequence of work items
    unfinished,           \* the queue's unfinished-task count (put / task_done)
    conversation_history, \* {sender: [turn]}
    active_sessions,      \* {sender: session}
    restricted_list,      \* ordered [sid, locked_until, locked_by]
    last_dispatch_to,     \* {responder: citizen}
    pending_911,          \* {sender: [ts]}
    pending_cancel,       \* {responder: [sid]}
    r,                    \* the router task (radio callback thread)
    w,                    \* the AI worker task
    wd,                   \* the watchdog task
    main,                 \* the main thread
    locks                 \* state_lock, log_lock and each task's place at them

maps == <<conversation_history, active_sessions, restricted_list,
          last_dispatch_to, pending_911, pending_cancel>>
queue == <<message_queue, unfinished>>
clock == <<now, ticks>>
vars == <<now, ticks, packets, message_queue, unfinished, conversation_history,
          active_sessions, restricted_list, last_dispatch_to, pending_911,
          pending_cancel, r, w, wd, main, locks>>

\* restricted_list as an ordered dict
RIndex(sid) ==
    IF \E i \in DOMAIN restricted_list : restricted_list[i].sid = sid
    THEN CHOOSE i \in DOMAIN restricted_list : restricted_list[i].sid = sid
    ELSE 0

RWithout(sid) == SelectSeq(restricted_list, LAMBDA e : e.sid # sid)

RPut(entry) ==
    IF RIndex(entry.sid) = 0 THEN Append(restricted_list, entry)
    ELSE [restricted_list EXCEPT ![RIndex(entry.sid)] = entry]

RestrictedIds == {restricted_list[i].sid : i \in DOMAIN restricted_list}

\* a radio send: safe_send(text, destinationId); to = "" is a channel broadcast
Msg(to, kind) == [to |-> to, kind |-> kind]

RouterIdle ==
    [pc |-> "idle", sender |-> "", msg |-> <<>>, rxTime |-> 0, target |-> "", list |-> <<>>,
     sess |-> <<>>, i |-> 0, trigger |-> "", context |-> <<>>, depth |-> 0,
     sent |-> <<>>, audit |-> <<>>, rx |-> <<>>,
     prev |-> [sender |-> "", msg |-> <<>>, sent |-> <<>>]]

WorkerIdle ==
    [pc |-> "idle", sender |-> "", msg |-> <<>>, is_triage |-> FALSE,
     reply |-> "", i |-> 0, n |-> 0, sent |-> <<>>, audit |-> <<>>, dones |-> 0]

WatchdogIdle ==
    [pc |-> "sleep", t |-> 0, stale |-> {}, sid |-> "", sess |-> <<>>,
     i |-> 0, sent |-> <<>>, audit |-> <<>>, sweeps |-> 0,
     prev |-> [t |-> 0, sent |-> <<>>, audit |-> <<>>]]

\* main() after startup: in the `while True: time.sleep(1)` loop
MainRunning == [pc |-> "running", active |-> {}, audit |-> <<>>]

\* the threads of the program: radio callback, ai_worker, watchdog, main
Tasks == {"router", "worker", "watchdog", "main"}

\* both locks free, every task outside any with-block
LocksFree ==
    [state_lock |-> "", log_lock |-> "", at |-> [t \in Tasks |-> "out"]]

Init ==
    /\ now = BOOT_TIME
    /\ ticks = 0
    /\ packets = 0
    /\ message_queue = <<>>
    /\ unfinished = 0
    /\ conversation_history = EmptyDict
    /\ active_sessions = EmptyDict
    /\ restricted_list = <<>>
    /\ last_dispatch_to = EmptyDict
    /\ pending_911 = EmptyDict
    /\ pending_cancel = EmptyDict
    /\ r = RouterIdle
    /\ w = WorkerIdle
    /\ wd = WatchdogIdle
    /\ main = MainRunning
    /\ locks = LocksFree

\* ------------------------------------------------------------ the clock
Tick(d) ==
    /\ ticks < MaxTicks
    /\ now' = now + d
    /\ ticks' = ticks + 1
    /\ UNCHANGED <<packets, queue, maps, r, w, wd, main, locks>>

\* ---------------------------------------------------------- the router
RSend(to, kind) == Append(r.sent, Msg(to, kind))

\* close_session with a get in place of the pop
close_session_keep(sid) == UNCHANGED active_sessions

\* close_session(sender_id, reason): the pop under the guard; the session
\* (or None) is returned to the caller, which logs sos_closed when it got one
close_session(sid) ==
    active_sessions' = IF Has(active_sessions, sid) THEN Pop(active_sessions, sid)
                       ELSE active_sessions

closed_session(sid) ==
    IF Has(active_sessions, sid) THEN <<active_sessions[sid]>> ELSE <<>>

closed_audit(sid, reason) ==
    IF Has(active_sessions, sid) THEN <<"sos_closed." \o reason>> ELSE <<>>

\* (first_stop_any is on_receive without the is_responder test)
\* where on_receive goes after the rx record: the responder-only commands
\* are looked at first, and only for a sender in the responder set
first_stop_any(sender, msg_lower) ==
    IF is_cmd(msg_lower, "!spam") THEN "spam_lookup"
    ELSE IF is_cmd(msg_lower, "!cancel") THEN "cancel_scan"
    ELSE "gate"

first_stop(sender, msg_lower) ==
    IF is_responder(sender)
    THEN IF is_cmd(msg_lower, "!spam") THEN "spam_lookup"
         ELSE IF is_cmd(msg_lower, "!cancel") THEN "cancel_scan"
         ELSE "cancel_get"
    ELSE "gate"

\* rx_time and rx_time < BOOT_TIME - STALE_WINDOW: the stale-packet guard of
\* the V3 onReceive; the V7 on_receive has no such check
stale_packet(rxTime) == rxTime # 0 /\ rxTime < BOOT_TIME - STALE_WINDOW

\* the packet filter of on_receive: no text, no sender, another channel, echo
filtered(p) ==
    \/ ~p.hasText
    \/ p.fromId = "" \/ p.fromId = "Unknown"
    \/ p.channel # CHANNEL_INDEX
    \/ is_my_node(p.fromId)

on_receive(p) ==
    /\ r.pc = "idle"
    /\ packets' = packets + 1
    /\ IF filtered(p)
       THEN r' = r
       ELSE r' = [RouterIdle EXCEPT
                    !.pc = first_stop(p.fromId, lower(p.text)),
                    !.sender = p.fromId,
                    !.msg = p.text,
                    !.rxTime = p.rxTime,
                    !.audit = <<"rx">>,
                    !.prev = r.prev,
                    !.rx = IF RIndex(p.fromId) = 0 THEN <<>>
                           ELSE <<restricted_list[RIndex(p.fromId)]>>]
    /\ UNCHANGED <<clock, main, locks, queue, maps, w, wd>>

\* the handler has returned; its locals are dropped
router_return ==
    /\ r.pc = "done"
    /\ r' = [RouterIdle EXCEPT
               !.prev = [sender |-> r.sender, msg |-> r.msg, sent |-> r.sent]]
    /\ UNCHANGED <<clock, main, locks, packets, queue, maps, w, wd>>

\* === !spam ===
spam_lookup ==
    /\ r.pc = "spam_lookup"
    /\ r' = IF Has(last_dispatch_to, r.sender)
            THEN [r EXCEPT !.pc = "spam_close", !.target = last_dispatch_to[r.sender]]
            ELSE [r EXCEPT !.pc = "spam_none"]
    /\ UNCHANGED <<clock, main, locks, packets, queue, maps, w, wd>>

spam_none ==
    /\ r.pc = "spam_none"
    /\ r' = [r EXCEPT !.pc = "done", !.sent = RSend(r.sender, "no_recent_dispatch")]
    /\ UNCHANGED <<clock, main, locks, packets, queue, maps, w, wd>>

spam_close ==
    /\ r.pc = "spam_close"
    /\ close_session(r.target)
    /\ r' = [r EXCEPT
               !.pc = IF Has(active_sessions, r.target) THEN "spam_closed_note"
                      ELSE "spam_restrict",
               !.sess = closed_session(r.target),
               !.audit = @ \o closed_audit(r.target, "restricted")]
    /\ UNCHANGED <<clock, main, locks, packets, queue, conversation_history, restricted_list,
                   last_dispatch_to, pending_911, pending_cancel, w, wd>>

spam_closed_note ==
    /\ r.pc = "spam_closed_note"
    /\ r' = [r EXCEPT !.pc = "spam_restrict",
                      !.sent = RSend(r.sender, "triage_force_closed")]
    /\ UNCHANGED <<clock, main, locks, packets, queue, maps, w, wd>>

\* the entry with the lockout's minutes added to the clock as if seconds
restrict_entry_minutes(sid, by, t) ==
    [sid |-> sid, locked_until |-> t + LOCKOUT_MINUTES, locked_by |-> by]

restrict_entry(sid, by, t) ==
    [sid |-> sid, locked_until |-> t + LOCKOUT_MINUTES * 60, locked_by |-> by]

spam_restrict ==
    /\ r.pc = "spam_restrict"
    /\ restricted_list' = RPut(restrict_entry(r.target, r.sender, now))
    /\ pending_911' = Pop(pending_911, r.target)
    /\ r' = [r EXCEPT !.pc = "spam_notify_responder"]
    /\ UNCHANGED <<clock, main, locks, packets, queue, conversation_history, active_sessions,
                   last_dispatch_to, pending_cancel, w, wd>>

spam_notify_responder ==
    /\ r.pc = "spam_notify_responder"
    /\ r' = [r EXCEPT !.pc = "spam_notify_citizen",
                      !.sent = RSend(r.sender, "locked_out")]
    /\ UNCHANGED <<clock, main, locks, packets, queue, maps, w, wd>>

spam_notify_citizen ==
    /\ r.pc = "spam_notify_citizen"
    /\ r' = [r EXCEPT !.pc = "done",
                      !.sent = RSend(r.target, "restricted_notice"),
                      !.audit = Append(@, "restricted")]
    /\ UNCHANGED <<clock, main, locks, packets, queue, maps, w, wd>>

\* === !cancel ===
\* the entries with int((locked_until - now) / 60) > 0, in the list's order
active_restrictions(t) ==
    SelectSeq(restricted_list, LAMBDA e : (e.locked_until - t) \div 60 > 0)

ordered_ids(entries) == [i \in DOMAIN entries |-> entries[i].sid]

cancel_scan ==
    /\ r.pc = "cancel_scan"
    /\ r' = IF active_restrictions(now) = <<>>
            THEN [r EXCEPT !.pc = "cancel_empty"]
            ELSE [r EXCEPT !.pc = "cancel_store",
                           !.list = ordered_ids(active_restrictions(now))]
    /\ UNCHANGED <<clock, main, locks, packets, queue, maps, w, wd>>

cancel_empty ==
    /\ r.pc = "cancel_empty"
    /\ r' = [r EXCEPT !.pc = "done", !.sent = RSend(r.sender, "list_empty")]
    /\ UNCHANGED <<clock, main, locks, packets, queue, maps, w, wd>>

cancel_store ==
    /\ r.pc = "cancel_store"
    /\ pending_cancel' = Put(pending_cancel, r.sender, r.list)
    /\ r' = [r EXCEPT !.pc = "cancel_send"]
    /\ UNCHANGED <<clock, main, locks, packets, queue, conversation_history, active_sessions,
                   restricted_list, last_dispatch_to, pending_911, w, wd>>

cancel_send ==
    /\ r.pc = "cancel_send"
    /\ r' = [r EXCEPT !.pc = "done", !.sent = RSend(r.sender, "restricted_list")]
    /\ UNCHANGED <<clock, main, locks, packets, queue, maps, w, wd>>

\* === numbered reply to the !cancel list ===
\* where a responder's message that is neither !spam nor !cancel goes, given
\* pending_cancel.get(sender)
numeric_stop(cancel_list, msg_lower) ==
    IF cancel_list # <<>> /\ isdigit(msg_lower)
    THEN IF 0 <= DigitVal[msg_lower[1]] - 1 /\ DigitVal[msg_lower[1]] - 1 < Len(cancel_list)
         THEN "cancel_pop"
         ELSE "cancel_invalid"
    ELSE "gate"

\* the k-th sender of the list the responder is looking at, read from the
\* restricted list as it stands now
cancel_target_current(cancel_list, idx) ==
    IF idx + 1 <= Len(restricted_list) THEN restricted_list[idx + 1].sid ELSE ""

\* target_citizen = cancel_list[idx]
cancel_target(cancel_list, idx) == cancel_list[idx + 1]

cancel_get ==
    /\ r.pc = "cancel_get"
    /\ LET cancel_list == IF Has(pending_cancel, r.sender)
                          THEN pending_cancel[r.sender] ELSE <<>>
           stop == numeric_stop(cancel_list, lower(r.msg))
       IN r' = [r EXCEPT !.pc = stop,
                         !.list = cancel_list,
                         !.target = IF stop = "cancel_pop"
                                    THEN cancel_target(cancel_list,
                                                       DigitVal[lower(r.msg)[1]] - 1)
                                    ELSE ""]
    /\ UNCHANGED <<clock, main, locks, packets, queue, maps, w, wd>>

cancel_pop ==
    /\ r.pc = "cancel_pop"
    /\ restricted_list' = RWithout(r.target)
    /\ pending_cancel' = Pop(pending_cancel, r.sender)
    /\ r' = [r EXCEPT !.pc = IF RIndex(r.target) # 0 THEN "cancel_removed"
                             ELSE "cancel_already"]
    /\ UNCHANGED <<clock, main, locks, packets, queue, conversation_history, active_sessions,
                   last_dispatch_to, pending_911, w, wd>>

cancel_removed ==
    /\ r.pc = "cancel_removed"
    /\ r' = [r EXCEPT !.pc = "cancel_restored",
                      !.sent = RSend(r.sender, "removed_from_list")]
    /\ UNCHANGED <<clock, main, locks, packets, queue, maps, w, wd>>

cancel_restored ==
    /\ r.pc = "cancel_restored"
    /\ r' = [r EXCEPT !.pc = "done",
                      !.sent = RSend(r.target, "access_restored"),
                      !.audit = Append(@, "restriction_lifted")]
    /\ UNCHANGED <<clock, main, locks, packets, queue, maps, w, wd>>

cancel_already ==
    /\ r.pc = "cancel_already"
    /\ r' = [r EXCEPT !.pc = "done", !.sent = RSend(r.sender, "already_removed")]
    /\ UNCHANGED <<clock, main, locks, packets, queue, maps, w, wd>>

\* an invalid number that also discards the responder's snapshot
cancel_invalid_drop ==
    /\ r.pc = "cancel_invalid"
    /\ pending_cancel' = Pop(pending_cancel, r.sender)
    /\ r' = [r EXCEPT !.pc = "done", !.sent = RSend(r.sender, "invalid_number")]
    /\ UNCHANGED <<clock, main, locks, packets, queue, conversation_history, active_sessions,
                   restricted_list, last_dispatch_to, pending_911, w, wd>>

cancel_invalid ==
    /\ r.pc = "cancel_invalid"
    /\ r' = [r EXCEPT !.pc = "done", !.sent = RSend(r.sender, "invalid_number")]
    /\ UNCHANGED <<clock, main, locks, packets, queue, maps, w, wd>>

\* === the restriction gate ===
\* is_restricted with the expiry comparison turned around
is_restricted_lapsed(sender, t) ==
    /\ RIndex(sender) # 0
    /\ t > restricted_list[RIndex(sender)].locked_until

\* is_restricted(sender): TRUE while an entry is there and time.time() is
\* not past its locked_until; a lapsed entry is popped on this access
is_restricted(sender, t) ==
    /\ RIndex(sender) # 0
    /\ ~(t > restricted_list[RIndex(sender)].locked_until)

\* where an unrestricted sender's message goes after the gate
\* the citizen section with the queue-depth test at its head
citizen_stop_gated(msg_lower) ==
    IF Len(message_queue) > QUEUE_LIMIT THEN "general_gate"
    ELSE IF is_cmd(msg_lower, "!ping") THEN "ping"
    ELSE IF is_cmd(msg_lower, "!status") THEN "status_read"
    ELSE IF is_cmd(msg_lower, "!safe") THEN "safe_close"
    ELSE IF is_cmd(msg_lower, "!911") THEN "m911_ack"
    ELSE "p911_get"

citizen_stop(msg_lower) ==
    IF is_cmd(msg_lower, "!ping") THEN "ping"
    ELSE IF is_cmd(msg_lower, "!status") THEN "status_read"
    ELSE IF is_cmd(msg_lower, "!safe") THEN "safe_close"
    ELSE IF is_cmd(msg_lower, "!911") THEN "m911_ack"
    ELSE "p911_get"

gate ==
    /\ r.pc = "gate"
    /\ IF is_restricted(r.sender, now)
       THEN /\ r' = [r EXCEPT !.pc = "gate_notice"]
            /\ UNCHANGED restricted_list
       ELSE /\ restricted_list' = RWithout(r.sender)
            /\ r' = [r EXCEPT !.pc = citizen_stop(lower(r.msg)),
                              !.audit = IF RIndex(r.sender) # 0
                                        THEN Append(@, "restriction_expired") ELSE @]
    /\ UNCHANGED <<clock, main, locks, packets, queue, conversation_history, active_sessions,
                   last_dispatch_to, pending_911, pending_cancel, w, wd>>

gate_notice ==
    /\ r.pc = "gate_notice"
    /\ r' = [r EXCEPT !.pc = "done", !.sent = RSend(r.sender, "restricted_notice")]
    /\ UNCHANGED <<clock, main, locks, packets, queue, maps, w, wd>>

\* === !ping ===
\* the pong sent with no destinationId, that is, to the whole channel
ping_broadcast ==
    /\ r.pc = "ping"
    /\ r' = [r EXCEPT !.pc = "done", !.sent = RSend("", "pong"),
                      !.audit = Append(@, "command.ping")]
    /\ UNCHANGED <<clock, main, locks, packets, queue, maps, w, wd>>

ping ==
    /\ r.pc = "ping"
    /\ r' = [r EXCEPT !.pc = "done", !.sent = RSend(r.sender, "pong"),
                      !.audit = Append(@, "command.ping")]
    /\ UNCHANGED <<clock, main, locks, packets, queue, maps, w, wd>>

\* === !status ===
status_read ==
    /\ r.pc = "status_read"
    /\ r' = [r EXCEPT !.pc = "status_send"]
    /\ UNCHANGED <<clock, main, locks, packets, queue, maps, w, wd>>

status_send ==
    /\ r.pc = "status_send"
    /\ r' = [r EXCEPT !.pc = "done", !.depth = Len(message_queue),
                      !.sent = RSend(r.sender, "status"),
                      !.audit = Append(@, "command.status")]
    /\ UNCHANGED <<clock, main, locks, packets, queue, maps, w, wd>>

\* === !safe ===
\* who is told that a session ended: its responder, or every responder, or
\* (none configured) the channel
notify_stop(session, one, all, none) ==
    IF session.dispatched_to # "" THEN one
    ELSE IF all_responders # <<>> THEN all
    ELSE none

safe_close ==
    /\ r.pc = "safe_close"
    /\ close_session(r.sender)
    /\ r' = IF Has(active_sessions, r.sender)
            THEN [r EXCEPT
                    !.pc = notify_stop(active_sessions[r.sender], "safe_notify_target",
                                       "safe_notify_all", "safe_notify_channel"),
                    !.i = 1,
                    !.sess = closed_session(r.sender),
                    !.audit = @ \o closed_audit(r.sender, "safe")]
            ELSE [r EXCEPT !.pc = "safe_none"]
    /\ UNCHANGED <<clock, main, locks, packets, queue, conversation_history, restricted_list,
                   last_dispatch_to, pending_911, pending_cancel, w, wd>>

safe_notify_target ==
    /\ r.pc = "safe_notify_target"
    /\ r' = [r EXCEPT !.pc = "safe_ack",
                      !.sent = RSend(r.sess[1].dispatched_to, "cancelled")]
    /\ UNCHANGED <<clock, main, locks, packets, queue, maps, w, wd>>

safe_notify_all ==
    /\ r.pc = "safe_notify_all"
    /\ r' = [r EXCEPT !.pc = IF r.i = Len(all_responders) THEN "safe_ack"
                             ELSE "safe_notify_all",
                      !.i = r.i + 1,
                      !.sent = RSend(all_responders[r.i], "cancelled")]
    /\ UNCHANGED <<clock, main, locks, packets, queue, maps, w, wd>>

safe_notify_channel ==
    /\ r.pc = "safe_notify_channel"
    /\ r' = [r EXCEPT !.pc = "safe_ack", !.sent = RSend("", "cancelled")]
    /\ UNCHANGED <<clock, main, locks, packets, queue, maps, w, wd>>

safe_ack ==
    /\ r.pc = "safe_ack"
    /\ r' = [r EXCEPT !.pc = "done", !.sent = RSend(r.sender, "sos_cancelled")]
    /\ UNCHANGED <<clock, main, locks, packets, queue, maps, w, wd>>

safe_none ==
    /\ r.pc = "safe_none"
    /\ r' = [r EXCEPT !.pc = "done", !.sent = RSend(r.sender, "no_active_sos")]
    /\ UNCHANGED <<clock, main, locks, packets, queue, maps, w, wd>>

\* === !911 ===
m911_ack ==
    /\ r.pc = "m911_ack"
    /\ r' = [r EXCEPT !.pc = "m911_menu", !.sent = RSend(r.sender, "911_received")]
    /\ UNCHANGED <<clock, main, locks, packets, queue, maps, w, wd>>

m911_menu ==
    /\ r.pc = "m911_menu"
    /\ r' = [r EXCEPT !.pc = "m911_store", !.sent = RSend(r.sender, "menu_911")]
    /\ UNCHANGED <<clock, main, locks, packets, queue, maps, w, wd>>

m911_store ==
    /\ r.pc = "m911_store"
    /\ pending_911' = Put(pending_911, r.sender, [ts |-> now])
    /\ r' = [r EXCEPT !.pc = "done", !.audit = Append(@, "sos_911_triggered")]
    /\ UNCHANGED <<clock, main, locks, packets, queue, conversation_history, active_sessions,
                   restricted_list, last_dispatch_to, pending_cancel, w, wd>>

\* === numbered reply to the !911 menu, then the direct SOS triggers ===
in_menu(msg_lower) == Len(msg_lower) = 1 /\ msg_lower[1] \in DOMAIN MENU_911_MAP

p911_get ==
    /\ r.pc = "p911_get"
    /\ r' = IF Has(pending_911, r.sender) /\ in_menu(lower(r.msg))
            THEN [r EXCEPT !.pc = "p911_pop"]
            ELSE IF match_trigger(lower(r.msg)) # ""
            THEN [r EXCEPT !.pc = "ds_ack",
                           !.trigger = match_trigger(lower(r.msg)),
                           !.context = Tail(r.msg)]
            ELSE [r EXCEPT !.pc = "triage_check"]
    /\ UNCHANGED <<clock, main, locks, packets, queue, maps, w, wd>>

p911_pop ==
    /\ r.pc = "p911_pop"
    /\ pending_911' = Pop(pending_911, r.sender)
    /\ r' = IF MENU_911_MAP[lower(r.msg)[1]] = "false_alarm"
            THEN [r EXCEPT !.pc = "p911_false"]
            ELSE [r EXCEPT !.pc = "ds_ack",
                           !.trigger = MENU_911_MAP[lower(r.msg)[1]],
                           !.context = <<>>]
    /\ UNCHANGED <<clock, main, locks, packets, queue, conversation_history, active_sessions,
                   restricted_list, last_dispatch_to, pending_cancel, w, wd>>

p911_false ==
    /\ r.pc = "p911_false"
    /\ r' = [r EXCEPT !.pc = "done", !.sent = RSend(r.sender, "no_emergency"),
                      !.audit = Append(@, "sos_false_alarm")]
    /\ UNCHANGED <<clock, main, locks, packets, queue, maps, w, wd>>

\* === dispatch_sos, called inline by on_receive ===
ds_ack ==
    /\ r.pc = "ds_ack"
    /\ r' = [r EXCEPT !.pc = "ds_safety", !.sent = RSend(r.sender, "sos_ack")]
    /\ UNCHANGED <<clock, main, locks, packets, queue, maps, w, wd>>

\* a router that alerts every responder whatever the trigger
route_stop_all(trigger) ==
    IF all_responders # <<>> THEN "ds_all" ELSE "ds_channel"

\* target = RESPONDERS.get(trigger): one responder, every responder, or the channel
route_stop(trigger) ==
    IF RESPONDERS[trigger] # "" THEN "ds_target"
    ELSE IF all_responders # <<>> THEN "ds_all"
    ELSE "ds_channel"

ds_safety ==
    /\ r.pc = "ds_safety"
    /\ r' = [r EXCEPT !.pc = route_stop(r.trigger),
                      !.target = RESPONDERS[r.trigger],
                      !.i = 1,
                      !.sent = RSend(r.sender, "sos_safety_note")]
    /\ UNCHANGED <<clock, main, locks, packets, queue, maps, w, wd>>

ds_target ==
    /\ r.pc = "ds_target"
    /\ r' = [r EXCEPT !.pc = "ds_target_ldt", !.sent = RSend(r.target, "dispatch")]
    /\ UNCHANGED <<clock, main, locks, packets, queue, maps, w, wd>>

\* the record of the dispatch, with the alert sent inside the same block
ds_target_ldt_sends ==
    /\ r.pc = "ds_target_ldt"
    /\ last_dispatch_to' = Put(last_dispatch_to, r.target, r.sender)
    /\ r' = [r EXCEPT !.pc = "ds_session", !.sent = RSend(r.target, "dispatch")]
    /\ UNCHANGED <<clock, main, locks, packets, queue, conversation_history, active_sessions,
                   restricted_list, pending_911, pending_cancel, w, wd>>

ds_target_ldt ==
    /\ r.pc = "ds_target_ldt"
    /\ last_dispatch_to' = Put(last_dispatch_to, r.target, r.sender)
    /\ r' = [r EXCEPT !.pc = "ds_session"]
    /\ UNCHANGED <<clock, main, locks, packets, queue, conversation_history, active_sessions,
                   restricted_list, pending_911, pending_cancel, w, wd>>

ds_all ==
    /\ r.pc = "ds_all"
    /\ r' = [r EXCEPT !.pc = "ds_all_ldt", !.sent = RSend(all_responders[r.i], "dispatch")]
    /\ UNCHANGED <<clock, main, locks, packets, queue, maps, w, wd>>

ds_all_ldt ==
    /\ r.pc = "ds_all_ldt"
    /\ last_dispatch_to' = Put(last_dispatch_to, all_responders[r.i], r.sender)
    /\ r' = [r EXCEPT !.pc = IF r.i = Len(all_responders) THEN "ds_session" ELSE "ds_all",
                      !.i = r.i + 1]
    /\ UNCHANGED <<clock, main, locks, packets, queue, conversation_history, active_sessions,
                   restricted_list, pending_911, pending_cancel, w, wd>>

ds_channel ==
    /\ r.pc = "ds_channel"
    /\ r' = [r EXCEPT !.pc = "ds_session", !.sent = RSend("", "dispatch")]
    /\ UNCHANGED <<clock, main, locks, packets, queue, maps, w, wd>>

\* safe_send when sendText raises (or there is no radio): the failure is
\* printed, False is returned and the caller, which ignores the result, goes on
RSendFails(to) == Append(r.sent, Msg(to, "send_error"))

ds_ack_fails ==
    /\ r.pc = "ds_ack"
    /\ r' = [r EXCEPT !.pc = "ds_safety", !.sent = RSendFails(r.sender)]
    /\ UNCHANGED <<clock, main, locks, packets, queue, maps, w, wd>>

ds_safety_fails ==
    /\ r.pc = "ds_safety"
    /\ r' = [r EXCEPT !.pc = route_stop(r.trigger),
                      !.target = RESPONDERS[r.trigger],
                      !.i = 1,
                      !.sent = RSendFails(r.sender)]
    /\ UNCHANGED <<clock, main, locks, packets, queue, maps, w, wd>>

\* a dispatch that gives up when the alert to the responder cannot be sent
ds_target_aborts ==
    /\ r.pc = "ds_target"
    /\ r' = [r EXCEPT !.pc = "done", !.sent = RSendFails(r.target)]
    /\ UNCHANGED <<clock, main, locks, packets, queue, maps, w, wd>>

ds_target_fails ==
    /\ r.pc = "ds_target"
    /\ r' = [r EXCEPT !.pc = "ds_target_ldt", !.sent = RSendFails(r.target)]
    /\ UNCHANGED <<clock, main, locks, packets, queue, maps, w, wd>>

ds_all_fails ==
    /\ r.pc = "ds_all"
    /\ r' = [r EXCEPT !.pc = "ds_all_ldt", !.sent = RSendFails(all_responders[r.i])]
    /\ UNCHANGED <<clock, main, locks, packets, queue, maps, w, wd>>

\* active_sessions[sender] = session: registered whether or not one is open
register_session(sender, session) ==
    active_sessions' = Put(active_sessions, sender, session)

ds_session ==
    /\ r.pc = "ds_session"
    /\ register_session(r.sender, create_session(r.trigger, r.context, r.target, now))
    /\ r' = [r EXCEPT !.pc = IF r.context # <<>> THEN "ds_enqueue" ELSE "done",
                      !.audit = Append(@, "sos_dispatch")]
    /\ UNCHANGED <<clock, main, locks, packets, queue, conversation_history, restricted_list,
                   last_dispatch_to, pending_911, pending_cancel, w, wd>>

Item(sender, message, is_triage) ==
    [sender |-> sender, message |-> message, is_triage |-> is_triage]

\* message_queue.put(item)
put(item) ==
    /\ message_queue' = Append(message_queue, item)
    /\ unfinished' = unfinished + 1

ds_enqueue ==
    /\ r.pc = "ds_enqueue"
    /\ put(Item(r.sender, r.context, TRUE))
    /\ r' = [r EXCEPT !.pc = "done"]
    /\ UNCHANGED <<clock, main, locks, packets, maps, w, wd>>

\* === active triage session? ===
triage_check ==
    /\ r.pc = "triage_check"
    /\ r' = [r EXCEPT !.pc = IF Has(active_sessions, r.sender) THEN "triage_put"
                             ELSE "general_gate"]
    /\ UNCHANGED <<clock, main, locks, packets, queue, maps, w, wd>>

triage_put ==
    /\ r.pc = "triage_put"
    /\ put(Item(r.sender, r.msg, TRUE))
    /\ r' = [r EXCEPT !.pc = "done"]
    /\ UNCHANGED <<clock, main, locks, packets, maps, w, wd>>

\* === general messages: the queue-depth gate ===
\* a gate that closes one message early
queue_full_early(depth) == depth >= QUEUE_LIMIT

queue_full(depth) == depth > QUEUE_LIMIT

general_gate ==
    /\ r.pc = "general_gate"
    /\ r' = [r EXCEPT !.pc = IF queue_full(Len(message_queue)) THEN "busy"
                             ELSE "general_put",
                      !.depth = Len(message_queue)]
    /\ UNCHANGED <<clock, main, locks, packets, queue, maps, w, wd>>

busy ==
    /\ r.pc = "busy"
    /\ r' = [r EXCEPT !.pc = "done", !.sent = RSend(r.sender, "busy"),
                      !.audit = Append(@, "bouncer_drop")]
    /\ UNCHANGED <<clock, main, locks, packets, queue, maps, w, wd>>

general_put ==
    /\ r.pc = "general_put"
    /\ put(Item(r.sender, r.msg, FALSE))
    /\ r' = [r EXCEPT !.pc = "done"]
    /\ UNCHANGED <<clock, main, locks, packets, maps, w, wd>>

\* ------------------------------------------------------- the AI worker
WSend(kind) == Append(w.sent, Msg(w.sender, kind))

\* message_queue.task_done()
task_done == unfinished' = unfinished - 1

Turn(t, role, msg) == [ts |-> t, role |-> role, msg |-> msg]

\* session["exchanges"].append(...); session["exchanges"] = trim_exchanges(...)
add_exchange(session, entry) ==
    [session EXCEPT !.exchanges = trim_exchanges(Append(@, entry))]

\* a worker that takes the newest item of the queue
worker_get_last ==
    /\ w.pc = "idle"
    /\ message_queue # <<>>
    /\ message_queue' = SubSeq(message_queue, 1, Len(message_queue) - 1)
    /\ LET data == message_queue[Len(message_queue)]
       IN w' = [WorkerIdle EXCEPT
                  !.pc = IF data.is_triage THEN "triage_begin" ELSE "general_begin",
                  !.sender = data.sender,
                  !.msg = data.message,
                  !.is_triage = data.is_triage]
    /\ UNCHANGED <<clock, main, locks, packets, unfinished, maps, r, wd>>

worker_get ==
    /\ w.pc = "idle"
    /\ message_queue # <<>>
    /\ message_queue' = Tail(message_queue)
    /\ w' = [WorkerIdle EXCEPT
               !.pc = IF Head(message_queue).is_triage THEN "triage_begin"
                      ELSE "general_begin",
               !.sender = Head(message_queue).sender,
               !.msg = Head(message_queue).message,
               !.is_triage = Head(message_queue).is_triage]
    /\ UNCHANGED <<clock, main, locks, packets, unfinished, maps, r, wd>>

worker_return ==
    /\ w.pc = "done"
    /\ w' = WorkerIdle
    /\ UNCHANGED <<clock, main, locks, packets, queue, maps, r, wd>>

\* a first block that sends an item without a session on to the model call
triage_begin_answers ==
    /\ w.pc = "triage_begin"
    /\ active_sessions' =
          IF Has(active_sessions, w.sender)
          THEN [active_sessions EXCEPT ![w.sender] =
                   [add_exchange(@, Turn(now, "citizen", w.msg))
                       EXCEPT !.last_activity = now]]
          ELSE active_sessions
    /\ w' = [w EXCEPT !.pc = "triage_llm"]
    /\ UNCHANGED <<clock, main, locks, packets, queue, conversation_history,
                   restricted_list, last_dispatch_to, pending_911, pending_cancel,
                   r, wd>>

\* the triage item's first guarded block: no session, the item is dropped
triage_begin ==
    /\ w.pc = "triage_begin"
    /\ IF ~Has(active_sessions, w.sender)
       THEN /\ task_done
            /\ w' = [w EXCEPT !.pc = "done", !.dones = @ + 1]
            /\ UNCHANGED active_sessions
       ELSE /\ active_sessions' =
                  [active_sessions EXCEPT ![w.sender] =
                      [add_exchange(@, Turn(now, "citizen", w.msg))
                          EXCEPT !.last_activity = now]]
            /\ w' = [w EXCEPT !.pc = "triage_llm"]
            /\ UNCHANGED unfinished
    /\ UNCHANGED <<clock, main, locks, packets, message_queue, conversation_history,
                   restricted_list, last_dispatch_to, pending_911, pending_cancel,
                   r, wd>>

\* client.chat.completions.create(...): a reply of n chunks, an empty reply
\* (replaced by the fixed fallback text) or an exception
llm_call(outcome, n, next) ==
    w' = CASE outcome = "raise" -> [w EXCEPT !.pc = "error"]
           [] outcome = "empty" -> [w EXCEPT !.pc = next, !.reply = "fallback", !.n = 1]
           [] OTHER -> [w EXCEPT !.pc = next, !.reply = "reply", !.n = n]

\* the model call that writes its outcome into the session as it returns
triage_llm_store(outcome, n) ==
    /\ w.pc = "triage_llm"
    /\ llm_call(outcome, n, "triage_store")
    /\ active_sessions' =
          IF Has(active_sessions, w.sender)
          THEN [active_sessions EXCEPT ![w.sender] =
                   add_exchange(@, Turn(now, "operator", <<outcome>>))]
          ELSE active_sessions
    /\ UNCHANGED <<clock, main, locks, packets, queue, conversation_history, restricted_list,
                   last_dispatch_to, pending_911, pending_cancel, r, wd>>

triage_llm(outcome, n) ==
    /\ w.pc = "triage_llm"
    /\ llm_call(outcome, n, "triage_store")
    /\ UNCHANGED <<clock, main, locks, packets, queue, maps, r, wd>>

triage_store ==
    /\ w.pc = "triage_store"
    /\ active_sessions' =
          IF Has(active_sessions, w.sender)
          THEN [active_sessions EXCEPT ![w.sender] =
                   add_exchange(@, Turn(now, "operator", <<w.reply>>))]
          ELSE active_sessions
    /\ w' = [w EXCEPT !.pc = "transmit", !.i = 1,
                      !.audit = Append(@, "triage_exchange")]
    /\ UNCHANGED <<clock, main, locks, packets, queue, conversation_history, restricted_list,
                   last_dispatch_to, pending_911, pending_cancel, r, wd>>

\* conversation_history[sender].append(user turn), then keep the last 4
add_user_turn(history, msg) ==
    LET h == Append(history, [role |-> "user", content |-> msg])
    IN IF Len(h) > HISTORY_LIMIT
       THEN SubSeq(h, Len(h) - HISTORY_LIMIT + 1, Len(h))
       ELSE h

general_begin ==
    /\ w.pc = "general_begin"
    /\ conversation_history' =
          Put(conversation_history, w.sender,
              add_user_turn(IF Has(conversation_history, w.sender)
                            THEN conversation_history[w.sender] ELSE <<>>,
                            w.msg))
    /\ w' = [w EXCEPT !.pc = "general_llm"]
    /\ UNCHANGED <<clock, main, locks, packets, queue, active_sessions, restricted_list,
                   last_dispatch_to, pending_911, pending_cancel, r, wd>>

general_llm(outcome, n) ==
    /\ w.pc = "general_llm"
    /\ llm_call(outcome, n, "general_store")
    /\ UNCHANGED <<clock, main, locks, packets, queue, maps, r, wd>>

general_store ==
    /\ w.pc = "general_store"
    /\ conversation_history' =
          [conversation_history EXCEPT ![w.sender] =
              Append(@, [role |-> "assistant", content |-> <<w.reply>>])]
    /\ w' = [w EXCEPT !.pc = "transmit", !.i = 1,
                      !.audit = Append(@, "general_exchange")]
    /\ UNCHANGED <<clock, main, locks, packets, queue, active_sessions, restricted_list,
                   last_dispatch_to, pending_911, pending_cancel, r, wd>>

\* chunk and transmit; the item is marked done after the last chunk
transmit ==
    /\ w.pc = "transmit"
    /\ IF w.i = w.n
       THEN /\ task_done
            /\ w' = [w EXCEPT !.pc = "done", !.dones = @ + 1,
                       !.sent = WSend(IF w.is_triage THEN "triage_reply"
                                      ELSE "general_reply")]
       ELSE /\ w' = [w EXCEPT !.i = @ + 1,
                       !.sent = WSend(IF w.is_triage THEN "triage_reply"
                                      ELSE "general_reply")]
            /\ UNCHANGED unfinished
    /\ UNCHANGED <<clock, main, locks, packets, message_queue, maps, r, wd>>

\* an except branch that sends the notice but leaves the item unfinished
worker_error_undone ==
    /\ w.pc = "error"
    /\ w' = [w EXCEPT !.pc = "done",
                      !.sent = WSend("operator_error"),
                      !.audit = Append(@, "ai_worker_error")]
    /\ UNCHANGED <<clock, main, locks, packets, queue, maps, r, wd>>

\* except Exception: one error notice, then task_done
worker_error ==
    /\ w.pc = "error"
    /\ task_done
    /\ w' = [w EXCEPT !.pc = "done", !.dones = @ + 1,
                      !.sent = WSend("operator_error"),
                      !.audit = Append(@, "ai_worker_error")]
    /\ UNCHANGED <<clock, main, locks, packets, message_queue, maps, r, wd>>

\* -------------------------------------------------------- the watchdog
DSend(to, kind) == Append(wd.sent, Msg(to, kind))

\* the sessions whose last_activity is more than TRIAGE_TIMEOUT before t
stale_sessions(t) ==
    {sid \in DOMAIN active_sessions :
        t - active_sessions[sid].last_activity > TRIAGE_TIMEOUT}

\* the pending !911 menus sent more than MENU_911_TIMEOUT before t
\* the menu scan with the session timeout in place of the menu timeout
stale_911_slow(t) ==
    {sid \in DOMAIN pending_911 : t - pending_911[sid].ts > TRIAGE_TIMEOUT}

stale_911(t) ==
    {sid \in DOMAIN pending_911 : t - pending_911[sid].ts > MENU_911_TIMEOUT}

\* a sweep that clears the restricted list whatever the lockouts say
unexpired_none(t) == <<>>

\* the restricted entries whose lockout is over at t
unexpired(t) == SelectSeq(restricted_list, LAMBDA e : ~(t > e.locked_until))

\* the sweep wakes up: now = time.time(), then the scan for stale sessions
wd_wake ==
    /\ wd.pc = "sleep"
    /\ wd.sweeps < MaxSweeps
    /\ wd' = [WatchdogIdle EXCEPT !.pc = "close_next", !.t = now,
                                  !.stale = stale_sessions(now),
                                  !.sweeps = wd.sweeps + 1,
                                  !.prev = wd.prev]
    /\ UNCHANGED <<clock, main, locks, packets, queue, maps, r, w>>

wd_close(sid) ==
    /\ wd.pc = "close_next"
    /\ sid \in wd.stale
    /\ close_session(sid)
    /\ wd' = [wd EXCEPT !.pc = IF Has(active_sessions, sid) THEN "timeout_citizen"
                               ELSE "close_next",
                        !.stale = @ \ {sid},
                        !.sid = sid,
                        !.sess = closed_session(sid),
                        !.audit = @ \o closed_audit(sid, "timeout")]
    /\ UNCHANGED <<clock, main, locks, packets, queue, conversation_history, restricted_list,
                   last_dispatch_to, pending_911, pending_cancel, r, w>>

wd_timeout_citizen ==
    /\ wd.pc = "timeout_citizen"
    /\ wd' = [wd EXCEPT !.pc = notify_stop(wd.sess[1], "timeout_target",
                                           "timeout_all", "close_next"),
                        !.i = 1,
                        !.sent = DSend(wd.sid, "triage_timed_out")]
    /\ UNCHANGED <<clock, main, locks, packets, queue, maps, r, w>>

wd_timeout_target ==
    /\ wd.pc = "timeout_target"
    /\ wd' = [wd EXCEPT !.pc = "close_next",
                        !.sent = DSend(wd.sess[1].dispatched_to, "timeout")]
    /\ UNCHANGED <<clock, main, locks, packets, queue, maps, r, w>>

wd_timeout_all ==
    /\ wd.pc = "timeout_all"
    /\ wd' = [wd EXCEPT !.pc = IF wd.i = Len(all_responders) THEN "close_next"
                               ELSE "timeout_all",
                        !.i = wd.i + 1,
                        !.sent = DSend(all_responders[wd.i], "timeout")]
    /\ UNCHANGED <<clock, main, locks, packets, queue, maps, r, w>>

wd_scan_911 ==
    /\ wd.pc = "close_next"
    /\ wd.stale = {}
    /\ wd' = [wd EXCEPT !.pc = "pop_next", !.stale = stale_911(wd.t)]
    /\ UNCHANGED <<clock, main, locks, packets, queue, maps, r, w>>

\* the sweep's pop of a stale menu written as a get: the entry stays
wd_pop_keep(sid) ==
    /\ wd.pc = "pop_next"
    /\ sid \in wd.stale
    /\ wd' = [wd EXCEPT !.pc = IF ~Has(pending_911, sid) THEN "pop_next"
                               ELSE IF all_responders # <<>> THEN "alert_send"
                               ELSE "alert_channel",
                        !.stale = @ \ {sid},
                        !.sid = sid,
                        !.i = 1]
    /\ UNCHANGED <<clock, main, locks, packets, queue, maps, r, w>>

wd_pop(sid) ==
    /\ wd.pc = "pop_next"
    /\ sid \in wd.stale
    /\ pending_911' = Pop(pending_911, sid)
    /\ wd' = [wd EXCEPT !.pc = IF ~Has(pending_911, sid) THEN "pop_next"
                               ELSE IF all_responders # <<>> THEN "alert_send"
                               ELSE "alert_channel",
                        !.stale = @ \ {sid},
                        !.sid = sid,
                        !.i = 1]
    /\ UNCHANGED <<clock, main, locks, packets, queue, conversation_history, active_sessions,
                   restricted_list, last_dispatch_to, pending_cancel, r, w>>

wd_alert_send ==
    /\ wd.pc = "alert_send"
    /\ wd' = [wd EXCEPT !.pc = "alert_ldt",
                        !.sent = DSend(all_responders[wd.i], "911_no_response")]
    /\ UNCHANGED <<clock, main, locks, packets, queue, maps, r, w>>

wd_alert_ldt ==
    /\ wd.pc = "alert_ldt"
    /\ last_dispatch_to' = Put(last_dispatch_to, all_responders[wd.i], wd.sid)
    /\ wd' = [wd EXCEPT !.pc = IF wd.i = Len(all_responders) THEN "pop_next"
                               ELSE "alert_send",
                        !.i = wd.i + 1,
                        !.audit = IF wd.i = Len(all_responders)
                                  THEN Append(@, "sos_911_no_response") ELSE @]
    /\ UNCHANGED <<clock, main, locks, packets, queue, conversation_history, active_sessions,
                   restricted_list, pending_911, pending_cancel, r, w>>

wd_alert_channel ==
    /\ wd.pc = "alert_channel"
    /\ wd' = [wd EXCEPT !.pc = "pop_next",
                        !.sent = DSend("", "911_no_response"),
                        !.audit = Append(@, "sos_911_no_response")]
    /\ UNCHANGED <<clock, main, locks, packets, queue, maps, r, w>>

wd_expire ==
    /\ wd.pc = "pop_next"
    /\ wd.stale = {}
    /\ restricted_list' = unexpired(wd.t)
    /\ wd' = [wd EXCEPT !.pc = "done",
                        !.audit = @ \o [i \in 1..(Len(restricted_list)
                                                  - Len(unexpired(wd.t)))
                                        |-> "restriction_expired"]]
    /\ UNCHANGED <<clock, main, locks, packets, queue, conversation_history, active_sessions,
                   last_dispatch_to, pending_911, pending_cancel, r, w>>

wd_return ==
    /\ wd.pc = "done"
    /\ wd' = [WatchdogIdle EXCEPT
                !.sweeps = wd.sweeps,
                !.prev = [t |-> wd.t, sent |-> wd.sent, audit |-> wd.audit]]
    /\ UNCHANGED <<clock, main, locks, packets, queue, maps, r, w>>

\* ------------------------------------------------------ the environment
\* an inbound text packet as the radio delivers it
Packet(from, text, rxTime) ==
    [hasText |-> TRUE, fromId |-> from, channel |-> CHANNEL_INDEX, rxTime |-> rxTime,
     text |-> text]

\* packets the filter of on_receive drops: no decoded text, the sender
\* "Unknown", another channel, an echo of the local node
DroppedPackets ==
    {[Packet("!n1", <<"!sos">>, BOOT_TIME) EXCEPT !.hasText = FALSE],
     Packet("Unknown", <<"!sos">>, BOOT_TIME),
     [Packet("!n1", <<"!sos">>, BOOT_TIME) EXCEPT !.channel = CHANNEL_INDEX + 1],
     Packet(MyNode, <<"!sos">>, BOOT_TIME)}

\* a packet the radio buffered before the process started and replays at connect
StalePackets == {Packet("!n1", <<"!sos">>, BOOT_TIME - STALE_WINDOW - 1)}

CitizenTexts ==
    {<<"!SOS">>, <<"!fire", "stove">>, <<"!safe">>, <<"!911">>, <<"1">>, <<"5">>,
     <<"!ping">>, <<"!status">>, <<"hello">>}

ResponderTexts == {<<"!spam">>, <<"!cancel">>, <<"1">>, <<"!sos">>}

Inbound ==
    {Packet("!n1", text, now) : text \in CitizenTexts}
        \cup {Packet(POLICE, text, now) : text \in ResponderTexts}
        \cup DroppedPackets \cup StalePackets

Receive ==
    /\ packets < MaxPackets
    /\ \E p \in Inbound : on_receive(p)

Lapse == Tick(LOCKOUT_MINUTES * 60 + 1)

\* ------------------------------------------------------------ the router
\* The router alone, fed by one citizen and one responder: every handler of
\* on_receive that MaxPackets packets can reach.
Next ==
    \/ Receive \/ router_return \/ Lapse
    \/ spam_lookup \/ spam_none \/ spam_close \/ spam_closed_note \/ spam_restrict
    \/ spam_notify_responder \/ spam_notify_citizen
    \/ cancel_scan \/ cancel_empty \/ cancel_store \/ cancel_send \/ cancel_get
    \/ gate \/ gate_notice
    \/ ping \/ status_read \/ status_send
    \/ safe_close \/ safe_notify_target \/ safe_notify_all \/ safe_ack \/ safe_none
    \/ m911_ack \/ m911_menu \/ m911_store
    \/ p911_get \/ p911_pop \/ p911_false
    \/ ds_ack \/ ds_safety \/ ds_target \/ ds_target_ldt \/ ds_all \/ ds_all_ldt
    \/ ds_session \/ ds_enqueue
    \/ triage_check \/ triage_put \/ general_gate \/ general_put

Spec == Init /\ [][Next]_vars

\* -------------------------------------------------- the restricted list
\* Two citizens are dispatched to the police responder and restricted; two
\* responders take snapshots of the list and reply to them with numbers.
InboundCancel ==
    {Packet(c, <<"!police">>, now) : c \in Citizens}
        \cup {Packet(POLICE, text, now) : text \in {<<"!spam">>, <<"!cancel">>, <<"1">>, <<"2">>}}
        \cup {Packet(FIRE, text, now) : text \in {<<"!cancel">>, <<"1">>}}

ReceiveCancel ==
    /\ packets < MaxCancelPackets
    /\ \E p \in InboundCancel : on_receive(p)

NextCancel ==
    \/ ReceiveCancel \/ router_return
    \/ spam_lookup \/ spam_none \/ spam_close \/ spam_closed_note \/ spam_restrict
    \/ spam_notify_responder \/ spam_notify_citizen
    \/ cancel_scan \/ cancel_empty \/ cancel_store \/ cancel_send \/ cancel_get
    \/ cancel_pop \/ cancel_removed \/ cancel_restored \/ cancel_already
    \/ cancel_invalid
    \/ gate \/ gate_notice
    \/ p911_get
    \/ ds_ack \/ ds_safety \/ ds_target \/ ds_target_ldt \/ ds_session
    \/ triage_check \/ general_gate \/ general_put

SpecCancel == Init /\ [][NextCancel]_vars

\* ------------------------------------------------------ the triage loop
\* One citizen opens an incident and keeps writing; the router and the AI
\* worker run side by side and the language model always answers.
InboundTriage == {Packet("!n1", text, now) : text \in {<<"!fire", "stove">>, <<"hello">>, <<"!safe">>}}

ReceiveTriage ==
    /\ packets < MaxTriagePackets
    /\ \E p \in InboundTriage : on_receive(p)

LlmAnswers ==
    \/ \E n \in 1..MaxChunks : triage_llm("ok", n)
    \/ \E n \in 1..MaxChunks : general_llm("ok", n)

NextTriage ==
    \/ ReceiveTriage \/ router_return
    \/ gate \/ p911_get
    \/ safe_close \/ safe_notify_target \/ safe_ack \/ safe_none
    \/ ds_ack \/ ds_safety \/ ds_target \/ ds_target_ldt \/ ds_session \/ ds_enqueue
    \/ triage_check \/ triage_put \/ general_gate \/ general_put
    \/ worker_get \/ worker_return
    \/ triage_begin \/ triage_store \/ general_begin \/ general_store
    \/ LlmAnswers \/ transmit

SpecTriage == Init /\ [][NextTriage]_vars

\* ------------------------------------------------------- the deep queue
\* The worker is held in one long model call, so nothing leaves the queue.
\* Citizen !n2 writes until the queue is past the gate's limit; then a second
\* citizen and a responder send MaxGatePackets messages of every protected kind.
UrgentTexts ==
    {<<SOS_TRIGGERS[i]>> : i \in DOMAIN SOS_TRIGGERS}
        \cup {<<"!911">>, <<"1">>, <<"2">>, <<"3">>, <<"4">>}

InboundGate ==
    IF Len(message_queue) <= QUEUE_LIMIT
    THEN {Packet("!n2", <<"hello">>, now)}
    ELSE {Packet("!n1", text, now) : text \in UrgentTexts \cup {<<"hello">>}}
            \cup {Packet(POLICE, text, now) : text \in {<<"!spam">>, <<"!cancel">>, <<"1">>}}

ReceiveGate ==
    /\ packets < QUEUE_LIMIT + 1 + MaxGatePackets
    /\ \E p \in InboundGate : on_receive(p)

NextGate ==
    \/ ReceiveGate \/ router_return
    \/ spam_lookup \/ spam_none \/ spam_close \/ spam_closed_note \/ spam_restrict
    \/ spam_notify_responder \/ spam_notify_citizen
    \/ cancel_scan \/ cancel_empty \/ cancel_store \/ cancel_send \/ cancel_get
    \/ cancel_pop \/ cancel_removed \/ cancel_restored
    \/ gate \/ gate_notice
    \/ m911_ack \/ m911_menu \/ m911_store
    \/ p911_get \/ p911_pop
    \/ ds_ack \/ ds_safety \/ ds_target \/ ds_target_ldt \/ ds_all \/ ds_all_ldt
    \/ ds_session
    \/ triage_check \/ triage_put \/ general_gate \/ busy \/ general_put

SpecGate == Init /\ [][NextGate]_vars

\* ------------------------------------------------------- the watchdog
\* A citizen goes through the !911 menu, a responder restricts; the clock
\* jumps past one of the three time limits and the watchdog sweeps beside the
\* router.
InboundWatch ==
    {Packet("!n1", text, now) :
        text \in {<<"!911">>, <<"1">>, <<"2">>, <<"3">>, <<"4">>, <<"5">>}}
        \cup {Packet(POLICE, <<"!spam">>, now)}

ReceiveWatch ==
    /\ packets < MaxWatchPackets
    /\ \E p \in InboundWatch : on_receive(p)

TimePasses ==
    \E d \in {MENU_911_TIMEOUT + 1, TRIAGE_TIMEOUT + 1, LOCKOUT_MINUTES * 60 + 1} : Tick(d)

Sweep ==
    \/ wd_wake \/ wd_return
    \/ \E sid \in Citizens : wd_close(sid)
    \/ wd_timeout_citizen \/ wd_timeout_target \/ wd_timeout_all
    \/ wd_scan_911
    \/ \E sid \in Citizens : wd_pop(sid)
    \/ wd_alert_send \/ wd_alert_ldt
    \/ wd_expire

NextWatch ==
    \/ ReceiveWatch \/ router_return \/ TimePasses
    \/ spam_lookup \/ spam_none \/ spam_close \/ spam_closed_note \/ spam_restrict
    \/ spam_notify_responder \/ spam_notify_citizen
    \/ gate \/ gate_notice
    \/ m911_ack \/ m911_menu \/ m911_store
    \/ p911_get \/ p911_pop \/ p911_false
    \/ ds_ack \/ ds_safety \/ ds_target \/ ds_target_ldt \/ ds_all \/ ds_all_ldt
    \/ ds_session
    \/ triage_check \/ triage_put \/ general_gate \/ general_put
    \/ Sweep

SpecWatch == Init /\ [][NextWatch]_vars

\* ------------------------------------------------------------ the echo
\* The radio hands the node's own transmissions back to the callback, mixed
\* with a citizen's messages.
InboundEcho ==
    {Packet(MyNode, text, now) :
        text \in {<<"!sos">>, <<"!ping">>, <<"!911">>, <<"hello">>}}
        \cup {Packet("!n1", text, now) : text \in {<<"!sos">>, <<"!police">>, <<"!ping">>}}

ReceiveEcho ==
    /\ packets < MaxPackets
    /\ \E p \in InboundEcho : on_receive(p)

NextEcho ==
    \/ ReceiveEcho \/ router_return
    \/ gate \/ ping \/ p911_get
    \/ ds_ack \/ ds_safety \/ ds_target \/ ds_target_ldt \/ ds_all \/ ds_all_ldt
    \/ ds_session

SpecEcho == Init /\ [][NextEcho]_vars

\* ------------------------------------------------------------ state_lock
\* The steps that run inside a `with state_lock:` block, by the label the
\* task stands at when it takes the step.
state_lock_router ==
    {"spam_lookup", "spam_close", "spam_restrict",
     "cancel_scan", "cancel_store", "cancel_get", "cancel_pop",
     "gate", "status_read", "safe_close",
     "m911_store", "p911_get", "p911_pop",
     "ds_target_ldt", "ds_all_ldt", "ds_session", "triage_check"}

state_lock_worker ==
    {"triage_begin", "triage_store", "general_begin", "general_store"}

state_lock_watchdog == {"sleep", "close_next", "pop_next", "alert_ldt"}

\* client.chat.completions.create(...)
llm_labels == {"triage_llm", "general_llm"}

\* a step of the router, the worker or the watchdog calls safe_send
router_sends == Len(r'.sent) > Len(r.sent)
worker_sends == Len(w'.sent) > Len(w.sent)
watchdog_sends == Len(wd'.sent) > Len(wd.sent)

\* a step of the worker calls the model
worker_calls_llm == w.pc \in llm_labels /\ w' # w

\* a step taken inside a state_lock block
holds_state_lock ==
    \/ r' # r /\ r.pc \in state_lock_router
    \/ w' # w /\ w.pc \in state_lock_worker
    \/ wd' # wd /\ wd.pc \in state_lock_watchdog

\* ------------------------------------------------------ the three tasks
\* Router, AI worker and watchdog side by side: a citizen reports a fire,
\* asks for the menu or chats, the fire responder restricts, the model
\* answers or fails, and the clock may jump past the triage timeout.
InboundAll ==
    {Packet("!n1", text, now) : text \in {<<"!fire", "stove">>, <<"!911">>, <<"hello">>}}
        \cup {Packet(FIRE, <<"!spam">>, now)}

ReceiveAll ==
    /\ packets < MaxAllPackets
    /\ \E p \in InboundAll : on_receive(p)

LlmReturns ==
    \/ \E o \in {"ok", "raise"} : \E n \in 1..MaxChunks : triage_llm(o, n)
    \/ \E o \in {"ok", "raise"} : \E n \in 1..MaxChunks : general_llm(o, n)

NextAll ==
    \/ ReceiveAll \/ router_return \/ Tick(TRIAGE_TIMEOUT + 1)
    \/ spam_lookup \/ spam_none \/ spam_close \/ spam_closed_note \/ spam_restrict
    \/ spam_notify_responder \/ spam_notify_citizen
    \/ gate \/ gate_notice
    \/ m911_ack \/ m911_menu \/ m911_store
    \/ p911_get
    \/ ds_ack \/ ds_safety \/ ds_target \/ ds_target_ldt \/ ds_session \/ ds_enqueue
    \/ triage_check \/ triage_put \/ general_gate \/ general_put
    \/ worker_get \/ worker_return
    \/ triage_begin \/ triage_store \/ general_begin \/ general_store
    \/ LlmReturns \/ transmit \/ worker_error
    \/ wd_wake \/ wd_return
    \/ \E sid \in Citizens : wd_close(sid)
    \/ wd_timeout_citizen \/ wd_timeout_target
    \/ wd_scan_911
    \/ \E sid \in Citizens : wd_pop(sid)
    \/ wd_alert_send \/ wd_alert_ldt
    \/ wd_expire

SpecAll == Init /\ [][NextAll]_vars

\* ------------------------------------------------------ a failing radio
\* Dispatches over a radio on which any send may fail.
InboundRadio ==
    {Packet("!n1", text, now) :
        text \in {<<"!fire", "stove">>, <<"!police">>, <<"!sos">>, <<"!help", "lost">>}}
        \cup {Packet("!n2", <<"!fire">>, now)}

ReceiveRadio ==
    /\ packets < MaxRadioPackets
    /\ \E p \in InboundRadio : on_receive(p)

NextRadio ==
    \/ ReceiveRadio \/ router_return
    \/ gate \/ p911_get
    \/ ds_ack \/ ds_ack_fails \/ ds_safety \/ ds_safety_fails
    \/ ds_target \/ ds_target_fails \/ ds_target_ldt
    \/ ds_all \/ ds_all_fails \/ ds_all_ldt
    \/ ds_session \/ ds_enqueue

SpecRadio == Init /\ [][NextRadio]_vars

\* -------------------------------------------------------------- shutdown
\* except KeyboardInterrupt: the keys of the open sessions are listed in one
\* guarded block
interrupt ==
    /\ main.pc = "running"
    /\ main' = [main EXCEPT !.pc = "closing", !.active = DOMAIN active_sessions]
    /\ UNCHANGED <<clock, locks, packets, queue, maps, r, w, wd>>

\* for sid in active: close_session(sid, "shutdown"); a dict does not keep
\* its order in this model, so the listed keys are taken in any order
shutdown_close(sid) ==
    /\ main.pc = "closing"
    /\ sid \in main.active
    /\ close_session(sid)
    /\ main' = [main EXCEPT !.active = @ \ {sid},
                            !.audit = @ \o closed_audit(sid, "shutdown")]
    /\ UNCHANGED <<clock, locks, packets, queue, conversation_history, restricted_list,
                   last_dispatch_to, pending_911, pending_cancel, r, w, wd>>

\* radio_interface.close(); log_event(system.shutdown); main returns and the
\* callback and the daemon threads end with the process, wherever they stand
shutdown_finish ==
    /\ main.pc = "closing"
    /\ main.active = {}
    /\ main' = [main EXCEPT !.pc = "offline", !.audit = Append(@, "system.shutdown")]
    /\ r' = [r EXCEPT !.pc = "ended"]
    /\ w' = [w EXCEPT !.pc = "ended"]
    /\ wd' = [wd EXCEPT !.pc = "ended"]
    /\ UNCHANGED <<clock, locks, packets, queue, maps>>

\* The router serving dispatches while the operator is interrupted.
InboundShutdown ==
    {Packet("!n1", <<"!fire", "stove">>, now), Packet("!n2", <<"!police">>, now)}

ReceiveShutdown ==
    /\ packets < MaxShutdownPackets
    /\ \E p \in InboundShutdown : on_receive(p)

NextShutdown ==
    \/ ReceiveShutdown \/ router_return
    \/ gate \/ p911_get
    \/ ds_ack \/ ds_safety \/ ds_target \/ ds_target_ldt \/ ds_session \/ ds_enqueue
    \/ interrupt
    \/ \E sid \in Citizens : shutdown_close(sid)
    \/ shutdown_finish

SpecShutdown == Init /\ [][NextShutdown]_vars

\* ---------------------------------------------------- restriction lifecycle
\* One citizen is dispatched to the police, restricted, and released by the
\* responder's cancel, by its own next message after the lockout or by the
\* watchdog's sweep.
InboundRestrict ==
    {Packet("!n1", text, now) : text \in {<<"!police">>, <<"hello">>}}
        \cup {Packet(POLICE, text, now) : text \in {<<"!spam">>, <<"!cancel">>, <<"1">>}}

ReceiveRestrict ==
    /\ packets < MaxRestrictPackets
    /\ \E p \in InboundRestrict : on_receive(p)

NextRestrict ==
    \/ ReceiveRestrict \/ router_return \/ Lapse
    \/ spam_lookup \/ spam_none \/ spam_close \/ spam_closed_note \/ spam_restrict
    \/ spam_notify_responder \/ spam_notify_citizen
    \/ cancel_scan \/ cancel_empty \/ cancel_store \/ cancel_send \/ cancel_get
    \/ cancel_pop \/ cancel_removed \/ cancel_restored \/ cancel_already
    \/ gate \/ gate_notice
    \/ p911_get
    \/ ds_ack \/ ds_safety \/ ds_target \/ ds_target_ldt \/ ds_session
    \/ triage_check \/ triage_put \/ general_gate \/ general_put
    \/ wd_wake \/ wd_return
    \/ \E sid \in Citizens : wd_close(sid)
    \/ wd_timeout_citizen \/ wd_timeout_target
    \/ wd_scan_911 \/ wd_expire

SpecRestrict == Init /\ [][NextRestrict]_vars

\* ------------------------------------------------------ citizens and responders
\* A citizen and a responder both raise an alarm with the police and both try
\* the responder-only commands; the police responder restricts whoever was
\* dispatched to it last.
InboundRole ==
    {Packet("!n1", text, now) :
        text \in {<<"!police">>, <<"!spam">>, <<"!cancel">>, <<"1">>}}
        \cup {Packet(FIRE, text, now) : text \in {<<"!police">>, <<"!cancel">>, <<"1">>}}
        \cup {Packet(POLICE, <<"!spam">>, now)}

ReceiveRole ==
    /\ packets < MaxRolePackets
    /\ \E p \in InboundRole : on_receive(p)

NextRole ==
    \/ ReceiveRole \/ router_return \/ Lapse
    \/ spam_lookup \/ spam_none \/ spam_close \/ spam_closed_note \/ spam_restrict
    \/ spam_notify_responder \/ spam_notify_citizen
    \/ cancel_scan \/ cancel_empty \/ cancel_store \/ cancel_send \/ cancel_get
    \/ cancel_pop \/ cancel_removed \/ cancel_restored
    \/ gate \/ gate_notice
    \/ p911_get
    \/ ds_ack \/ ds_safety \/ ds_target \/ ds_target_ldt \/ ds_session
    \/ triage_check \/ triage_put \/ general_gate \/ general_put

SpecRole == Init /\ [][NextRole]_vars

\* ------------------------------------------------------ numbers in the cancel flow
\* A responder restricts a citizen, lists the restrictions and answers the
\* list with numbers inside and outside it.
InboundRelist ==
    {Packet("!n1", <<"!police">>, now)}
        \cup {Packet(POLICE, text, now) :
                 text \in {<<"!spam">>, <<"!cancel">>, <<"0">>, <<"1">>, <<"2">>}}

ReceiveRelist ==
    /\ packets < MaxRelistPackets
    /\ \E p \in InboundRelist : on_receive(p)

NextRelist ==
    \/ ReceiveRelist \/ router_return
    \/ spam_lookup \/ spam_none \/ spam_close \/ spam_closed_note \/ spam_restrict
    \/ spam_notify_responder \/ spam_notify_citizen
    \/ cancel_scan \/ cancel_empty \/ cancel_store \/ cancel_send \/ cancel_get
    \/ cancel_pop \/ cancel_removed \/ cancel_restored \/ cancel_invalid
    \/ gate \/ gate_notice
    \/ p911_get
    \/ ds_ack \/ ds_safety \/ ds_target \/ ds_target_ldt \/ ds_session
    \/ triage_check \/ general_gate \/ general_put

SpecRelist == Init /\ [][NextRelist]_vars

\* ------------------------------------------------------------- the claims
RestrictedNotice(to) == Msg(to, "restricted_notice")

\* the handler in progress was entered by a sender whose lockout is still running
LockedOut == r.pc # "idle" /\ r.rx # <<>> /\ ~(now > r.rx[1].locked_until)

\* the message is one of the responder-only commands, from a configured responder
ResponderCommand ==
    /\ is_responder(r.sender)
    /\ \/ is_cmd(lower(r.msg), "!spam")
       \/ is_cmd(lower(r.msg), "!cancel")
       \/ isdigit(lower(r.msg)) /\ (Has(pending_cancel, r.sender) \/ r.list # <<>>)

Replaces(s) == r.pc = "ds_session" /\ r' # r /\ s = r.sender

\* the step wrote an sos_closed record
WritesClosed ==
    \/ \E reason \in {"safe", "timeout", "restricted", "shutdown"} :
          /\ Len(r.audit') > Len(r.audit)
          /\ r.audit'[Len(r.audit')] = "sos_closed." \o reason
    \/ \E reason \in {"safe", "timeout", "restricted", "shutdown"} :
          /\ Len(wd.audit') > Len(wd.audit)
          /\ wd.audit'[Len(wd.audit')] = "sos_closed." \o reason

\* C4: an open session is neither replaced nor removed except by a
\* close_session that writes its sos_closed record
C4_SessionUntilClosed ==
    [][\A s \in DOMAIN active_sessions :
          /\ ~Replaces(s)
          /\ s \notin DOMAIN active_sessions' => WritesClosed]_vars

\* C5: a message that starts with an SOS trigger, from a sender with an open
\* session, is routed to the triage queue and starts no dispatch
C5_TriggerInTriage ==
    [][(/\ r.pc = "p911_get" /\ r' # r
        /\ match_trigger(lower(r.msg)) # ""
        /\ Has(active_sessions, r.sender))
       => r'.pc \in {"triage_check", "triage_put"}]_vars

\* C7: a packet whose rxTime precedes BOOT_TIME - STALE_WINDOW is dropped:
\* the router never handles it
C7_StaleDropped == ~(r.pc # "idle" /\ stale_packet(r.rxTime))

IsSafe == is_cmd(lower(r.msg), "!safe")

\* what a !safe that closed `session` sends: the note to its responder (or to
\* every responder), then the confirmation to the sender
SafeNotices(session, sender) ==
    (IF session.dispatched_to # "" THEN <<Msg(session.dispatched_to, "cancelled")>>
     ELSE [i \in DOMAIN all_responders |-> Msg(all_responders[i], "cancelled")])
        \o <<Msg(sender, "sos_cancelled")>>

\* the handler in progress is a !safe that directly follows a !safe of the
\* same sender which closed that sender's session
SecondSafe ==
    /\ r.pc # "idle" /\ IsSafe
    /\ r.prev.sender = r.sender /\ is_cmd(lower(r.prev.msg), "!safe")
    /\ Msg(r.sender, "sos_cancelled") \in Range(r.prev.sent)

\* C8: the first !safe closes the session with reason safe, tells the
\* responder(s) and the sender; a second !safe right after it replies
\* "No active SOS to cancel." and writes nothing
C8_SafeTwice ==
    /\ []((r.pc = "done" /\ IsSafe /\ r.sess # <<>>) =>
            /\ ~Has(active_sessions, r.sender)
            /\ r.audit = <<"rx", "sos_closed.safe">>
            /\ r.sent = SafeNotices(r.sess[1], r.sender))
    /\ []((r.pc = "done" /\ SecondSafe) => r.sent = <<Msg(r.sender, "no_active_sos")>>)
    /\ [][(SecondSafe /\ r' # r) => UNCHANGED <<maps, queue>>]_vars

C8_Witness ==
    /\ r.pc = "done" /\ SecondSafe
    /\ r.sent = <<Msg(r.sender, "no_active_sos")>>
    /\ Len(r.prev.sent) = Len(all_responders) + 1

\* the handler in progress is a responder's number
NumericReply == is_responder(r.sender) /\ isdigit(lower(r.msg))

\* C9: the step that serves a responder's number k removes from the restricted
\* list the k-th sender of that responder's snapshot and nothing else, whatever
\* the list holds by then; no other step of the handler writes the list
C9_SnapshotRemoval ==
    /\ [][(r.pc = "cancel_pop" /\ r' # r) =>
            LET gone == pending_cancel[r.sender][DigitVal[lower(r.msg)[1]]]
            IN restricted_list' = SelectSeq(restricted_list, LAMBDA e : e.sid # gone)]_vars
    /\ [][(NumericReply /\ r.pc \notin {"idle", "cancel_pop", "gate"} /\ r' # r) =>
            UNCHANGED restricted_list]_vars

\* the second sender of a two-entry snapshot is removed from a list that had
\* lost its first entry since the snapshot
C9_Witness ==
    /\ r.pc = "cancel_removed"
    /\ r.list = <<"!n1", "!n2">> /\ r.msg = <<"2">> /\ r.target = "!n2"
    /\ restricted_list = <<>>

\* C10: a number that repeats the one which has just removed an entry is
\* answered "Invalid number" and nothing else happens
C10_RepeatInvalid ==
    (/\ r.pc = "done" /\ NumericReply
     /\ r.prev.sender = r.sender /\ r.prev.msg = r.msg
     /\ Msg(r.sender, "removed_from_list") \in Range(r.prev.sent))
    => r.sent = <<Msg(r.sender, "invalid_number")>>

\* C3: the worker sends no triage reply to a citizen whose dispatch has sent
\* its ACK and not yet its safety note
C3_NoReplyInsideDispatch ==
    [][(w.pc = "transmit" /\ w.is_triage /\ w' # w) =>
          ~(r.pc = "ds_safety" /\ r.sender = w.sender)]_vars

\* the transcript `new` is `full` cut back to twelve entries: the first two of
\* `full`, then its last ten
CutBack(full, new) ==
    /\ Len(new) = 12
    /\ SubSeq(new, 1, 2) = SubSeq(full, 1, 2)
    /\ SubSeq(new, 3, 12) = SubSeq(full, Len(full) - 9, Len(full))

\* C6: no transcript holds more than twelve entries, and a turn appended to a
\* transcript of twelve leaves the first two entries as they were and keeps
\* the ten most recent ones, the new turn last
C6_TranscriptTrim ==
    /\ [](\A s \in DOMAIN active_sessions : Len(active_sessions[s].exchanges) <= 12)
    /\ [][\A s \in DOMAIN active_sessions \cap DOMAIN active_sessions' :
            LET old == active_sessions[s].exchanges
                new == active_sessions'[s].exchanges
            IN (w' # w /\ w.pc \in {"triage_begin", "triage_store"}
                    /\ s = w.sender /\ Len(old) = 12)
               => /\ new[12].role = (IF w.pc = "triage_begin" THEN "citizen" ELSE "operator")
                  /\ CutBack(Append(old, new[12]), new)]_vars

\* a transcript that was cut back: context, first turn, then the fourth entry
\* of the untrimmed transcript
C6_Witness ==
    /\ Has(active_sessions, "!n1")
    /\ LET ex == active_sessions["!n1"].exchanges
       IN /\ Len(ex) = 12
          /\ ex[1].msg = <<"stove">> /\ ex[2].msg = <<"stove">>
          /\ ex[3].role = "citizen" /\ ex[3].msg = <<"hello">>
          /\ ex[12].role = "operator"

\* the message is a menu selection 1-4 of a sender whose !911 menu is pending
MenuSelection ==
    /\ Len(r.msg) = 1 /\ r.msg[1] \in {"1", "2", "3", "4"}
    /\ Has(pending_911, r.sender) \/ r.trigger # ""

\* the message is an SOS trigger: a trigger word, !911 or a menu selection
SosTrigger ==
    \/ match_trigger(lower(r.msg)) # ""
    \/ is_cmd(lower(r.msg), "!911")
    \/ MenuSelection

\* C2: a handler that serves an SOS trigger or a responder command never
\* reaches the queue-depth test, never reads the queue's size and never sends
\* the busy notice, however deep the queue is
C2_GateSparesUrgent ==
    (r.pc # "idle" /\ (SosTrigger \/ ResponderCommand))
    => /\ r.pc \notin {"general_gate", "busy"}
       /\ r.depth = 0
       /\ Msg(r.sender, "busy") \notin Range(r.sent)

\* a menu selection is dispatched while the queue is deeper than the limit
C2_Witness ==
    /\ Len(message_queue) > 15
    /\ r.pc = "done" /\ MenuSelection
    /\ r.sent[1] = Msg(r.sender, "sos_ack")
    /\ Has(active_sessions, r.sender)

IsPing == r.pc # "idle" /\ is_cmd(lower(r.msg), "!ping")

Pong(to) == Msg(to, "pong")

\* C11, the claim as stated: every !ping that passes the packet filter is
\* answered with the pong, whatever the restricted list says of the sender
C11_AlwaysPong ==
    (r.pc = "done" /\ IsPing) => r.sent = <<Pong(r.sender)>>

\* C11, amended: a !ping of a sender that is not on the restricted list gets
\* exactly the pong and writes nothing; a sender on the list gets the
\* restriction notice while its lockout runs, and the pong once the lockout has
\* lapsed, in which case its own expired entry leaves the restricted list;
\* nothing else is ever written by the handler
C11_PingPong ==
    /\ []((r.pc = "done" /\ IsPing) =>
            IF r.rx = <<>> THEN r.sent = <<Pong(r.sender)>>
            ELSE \/ r.sent = <<RestrictedNotice(r.sender)>> /\ RIndex(r.sender) # 0
                 \/ /\ r.sent = <<Pong(r.sender)>>
                    /\ RIndex(r.sender) = 0
                    /\ now > r.rx[1].locked_until)
    /\ [][(IsPing /\ r' # r) =>
            /\ UNCHANGED <<queue, conversation_history, active_sessions,
                           last_dispatch_to, pending_911, pending_cancel>>
            /\ \/ UNCHANGED restricted_list
               \/ /\ r.rx # <<>> /\ now > r.rx[1].locked_until
                  /\ restricted_list' = RWithout(r.sender)]_vars

\* the pong after a lapsed lockout: the sender's entry is gone
C11_Witness ==
    /\ r.pc = "done" /\ IsPing /\ r.rx # <<>>
    /\ r.sent = <<Pong(r.sender)>>
    /\ RIndex(r.sender) = 0

\* the sweep in progress reads the same clock value as the sweep before it:
\* nothing has aged between the two
SecondSweep == wd.pc # "sleep" /\ wd.sweeps > 1 /\ wd.t = wd.prev.t

\* C12: a sweep that follows another with nothing aged in between sends
\* nothing, writes no audit record and changes no state
C12_SweepIdempotent ==
    /\ [](SecondSweep => wd.sent = <<>> /\ wd.audit = <<>>)
    /\ [][(SecondSweep /\ wd' # wd) => UNCHANGED <<maps, queue>>]_vars

\* the second sweep is over and was silent, after a first one that closed,
\* alerted or expired something
C12_Witness ==
    /\ wd.pc = "done" /\ SecondSweep
    /\ wd.prev.sent # <<>> /\ wd.prev.audit # <<>>
    /\ wd.sent = <<>>

\* C13: the watchdog never takes for its no-response dispatch a menu entry on
\* which the router has already accepted the sender's selection
C13_OneOutcome ==
    [][\A s \in DOMAIN pending_911 :
          (wd.pc = "pop_next" /\ wd' # wd /\ wd'.sid = s /\ wd'.pc = "alert_send")
          => ~(r.pc = "p911_pop" /\ r.sender = s)]_vars

\* the handler in progress has taken the message, one of 1 to 5, as the reply
\* to the sender's pending !911 menu
MenuReply ==
    /\ r.pc # "idle"
    /\ r.msg \in {<<"1">>, <<"2">>, <<"3">>, <<"4">>, <<"5">>}
    /\ \/ r.pc \in {"p911_pop", "p911_false"}
       \/ r.trigger # ""
       \/ "sos_false_alarm" \in Range(r.audit)

\* the trigger and the responders the menu promises for a selection
MenuTrigger(d) ==
    CASE d = "1" -> "!fire" [] d = "2" -> "!ems" [] d = "3" -> "!police" [] d = "4" -> "!help"

MenuAlerted(d) ==
    CASE d = "1" -> <<FIRE>> [] d = "2" -> <<EMS>> [] d = "3" -> <<POLICE>>
      [] d = "4" -> <<POLICE, FIRE, EMS>>

AlertedAll == wd.pc = "alert_ldt" /\ wd'.pc = "pop_next"

\* C15: a sweep leaves no menu entry that was older than 120 s when it
\* started; whenever it removes one it alerts every responder in turn with the
\* no-response dispatch and makes the sender each responder's last dispatch;
\* it opens no session
C15_NoResponse ==
    /\ [](wd.pc = "done" =>
            \A s \in DOMAIN pending_911 : ~(wd.t - pending_911[s].ts > 120))
    /\ [][\A s \in DOMAIN pending_911 :
            (wd' # wd /\ s \notin DOMAIN pending_911') =>
                wd'.pc = "alert_send" /\ wd'.sid = s /\ wd'.i = 1]_vars
    /\ [][AlertedAll =>
            SubSeq(wd.sent, Len(wd.sent) - Len(all_responders) + 1, Len(wd.sent))
                = [i \in DOMAIN all_responders |->
                      Msg(all_responders[i], "911_no_response")]]_vars
    /\ [][(wd.pc = "alert_ldt" /\ wd' # wd) =>
            /\ Has(last_dispatch_to', all_responders[wd.i])
            /\ last_dispatch_to'[all_responders[wd.i]] = wd.sid]_vars
    /\ [][(wd' # wd) => DOMAIN active_sessions' \subseteq DOMAIN active_sessions]_vars

\* the sender stayed silent after !911: the sweep is over, the entry is gone,
\* every responder's last dispatch is this sender and no session is open
C15_Witness ==
    /\ wd.pc = "done" /\ "sos_911_no_response" \in Range(wd.audit)
    /\ packets = 1 /\ r.pc = "idle" /\ r.prev.msg = <<"!911">>
    /\ ~Has(pending_911, "!n1") /\ ~Has(active_sessions, "!n1")
    /\ \A i \in DOMAIN all_responders :
          /\ Has(last_dispatch_to, all_responders[i])
          /\ last_dispatch_to[all_responders[i]] = "!n1"

IsSpam == r.pc # "idle" /\ is_responder(r.sender) /\ is_cmd(lower(r.msg), "!spam")

\* C16: !spam takes as its target the responder's last-dispatch entry; it
\* writes the target's restriction with expiry = clock + lockout; and when the
\* handler is done the target has no session (an open one was closed with
\* reason restricted), no pending menu, and is on the restricted list
C16_SpamRestricts ==
    /\ [][(IsSpam /\ r.pc = "spam_lookup" /\ r' # r /\ Has(last_dispatch_to, r.sender))
            => r'.target = last_dispatch_to[r.sender] /\ r'.pc # "spam_none"]_vars
    /\ [][(IsSpam /\ r.pc = "spam_restrict" /\ r' # r) =>
            \E i \in DOMAIN restricted_list' :
                /\ restricted_list'[i].sid = r.target
                /\ restricted_list'[i].locked_until = now + LOCKOUT_MINUTES * 60
                /\ restricted_list'[i].locked_by = r.sender]_vars
    /\ []((IsSpam /\ r.pc = "done" /\ r.target # "") =>
            /\ ~Has(active_sessions, r.target)
            /\ ~Has(pending_911, r.target)
            /\ RIndex(r.target) # 0
            /\ r.sess # <<>> => "sos_closed.restricted" \in Range(r.audit))

\* a citizen with an open session has been restricted
C16_Witness ==
    /\ IsSpam /\ r.pc = "done" /\ r.target = "!n1" /\ r.sess # <<>>
    /\ RIndex("!n1") # 0 /\ restricted_list[RIndex("!n1")].locked_by = POLICE
    /\ ~Has(active_sessions, "!n1")

\* C17: no handler ever runs for a packet of the local node, and a packet that
\* starts no handler leaves the router, the maps and the queue as they were
C17_EchoDropped ==
    /\ [](r.sender # MyNode /\ r.prev.sender # MyNode)
    /\ [][(packets' # packets /\ r'.pc = "idle") =>
            r' = r /\ UNCHANGED <<maps, queue>>]_vars

\* every packet so far was an echo: nothing was sent, recorded or stored
C17_Witness ==
    /\ packets = MaxPackets
    /\ r = RouterIdle
    /\ maps = <<EmptyDict, EmptyDict, <<>>, EmptyDict, EmptyDict, EmptyDict>>
    /\ message_queue = <<>>

\* C18: no step that sends on the radio and no step that calls the language
\* model is taken inside a state_lock block, and no such step touches the
\* shared maps
C18_NoSendUnderLock ==
    [][/\ router_sends => r.pc \notin state_lock_router /\ UNCHANGED maps
       /\ worker_sends => w.pc \notin state_lock_worker /\ UNCHANGED maps
       /\ watchdog_sends => wd.pc \notin state_lock_watchdog /\ UNCHANGED maps
       /\ worker_calls_llm => w.pc \notin state_lock_worker /\ UNCHANGED maps]_vars

\* the router has sent inside a handler, the model has answered the worker and
\* the watchdog has sent a timeout notice
C18_Witness ==
    /\ Len(r.sent) > 0
    /\ w.pc \in {"triage_store", "general_store"}
    /\ Len(wd.sent) > 0

\* C19: every step that changes one of the shared maps is taken inside a
\* state_lock block
C19_WritesUnderLock ==
    [][maps' # maps => holds_state_lock]_vars

\* the router has recorded a dispatch, the worker a conversation and the
\* watchdog has closed a session
C19_Witness ==
    /\ Has(last_dispatch_to, FIRE)
    /\ Has(conversation_history, "!n1")
    /\ wd.prev.audit # <<>>

\* the router is inside dispatch_sos, between its acknowledgement and the
\* registration of the session
dispatch_in_progress ==
    r.pc \in {"ds_safety", "ds_target", "ds_target_ldt", "ds_all", "ds_all_ldt",
              "ds_channel", "ds_session", "ds_enqueue"}

\* C20: while a dispatch is in progress the router can accept the next
\* inbound packet
C20_RouterFreeDuringDispatch ==
    (dispatch_in_progress /\ packets < MaxPackets) => ENABLED Receive

\* the worker has finished a triage item in one of three ways
TriageReplied ==
    /\ "triage_exchange" \in Range(w.audit)
    /\ Len(w.sent) = w.n
    /\ \A i \in 1..Len(w.sent) : w.sent[i] = Msg(w.sender, "triage_reply")

TriageDropped == w.sent = <<>> /\ w.audit = <<>>

TriageFailed ==
    /\ "ai_worker_error" \in Range(w.audit)
    /\ w.sent = <<Msg(w.sender, "operator_error")>>

TriageItemDone == w.pc = "done" /\ w.is_triage

\* a later triage item of the same sender waits in the queue
LaterItemWaits ==
    \E i \in 1..Len(message_queue) :
        message_queue[i].sender = w.sender /\ message_queue[i].is_triage

\* C21 as stated: a triage item finished while a later one of the same sender
\* waits has had its citizen turn appended and its reply transmitted
C21_EveryItemReplied == (TriageItemDone /\ LaterItemWaits) => TriageReplied

\* C21: the queue only grows at its end and shrinks at its head, the worker
\* takes the head item and only when it has finished the one before, a started
\* item of a sender with a session gets its citizen turn appended, and a
\* finished triage item was replied to, dropped for want of a session or
\* answered with the error notice
C21_ReceiveOrder ==
    /\ [][message_queue' # message_queue =>
            \/ /\ w.pc = "idle" /\ w'.pc \in {"triage_begin", "general_begin"}
               /\ message_queue' = Tail(message_queue)
               /\ Item(w'.sender, w'.msg, w'.is_triage) = Head(message_queue)
            \/ /\ r' # r /\ w' = w
               /\ Len(message_queue') = Len(message_queue) + 1
               /\ SubSeq(message_queue', 1, Len(message_queue)) = message_queue]_vars
    /\ [][(w.pc = "triage_begin" /\ w'.pc = "triage_llm") =>
            LET e == active_sessions'[w.sender].exchanges
            IN e[Len(e)] = Turn(now, "citizen", w.msg)]_vars
    /\ [](TriageItemDone =>
            /\ w.dones = 1
            /\ TriageReplied \/ TriageDropped \/ TriageFailed)

\* the report and the follow-up of one citizen were answered in the order
\* they were received
C21_Witness ==
    /\ TriageItemDone /\ TriageReplied /\ w.msg = <<"hello">>
    /\ ~LaterItemWaits
    /\ Has(active_sessions, "!n1")
    /\ [i \in 1..Len(active_sessions["!n1"].exchanges) |->
           active_sessions["!n1"].exchanges[i].msg]
         = <<<<"stove">>, <<"stove">>, <<"reply">>, <<"hello">>, <<"reply">>>>

\* the worker has finished an item whose model call raised
WorkerFailed == w.pc = "done" /\ "ai_worker_error" \in Range(w.audit)

\* C22: the step after a raised exception sends the error notice to the
\* item's sender and marks the item done, leaving the queue and the maps as
\* they were; a failed item ends with exactly that one notice sent and one
\* task_done, and the worker can then return and take the next item
C22_ErrorCaught ==
    /\ [][(w.pc = "error" /\ w' # w) =>
            /\ w'.pc = "done"
            /\ w'.sent = Append(w.sent, Msg(w.sender, "operator_error"))
            /\ unfinished' = unfinished - 1
            /\ UNCHANGED <<message_queue, maps>>]_vars
    /\ [](WorkerFailed =>
            /\ w.dones = 1
            /\ w.sent = <<Msg(w.sender, "operator_error")>>
            /\ ENABLED worker_return)
    /\ []((w.pc = "idle" /\ message_queue # <<>>) => ENABLED worker_get)

\* a general item failed while another item waits in the queue
C22_Witness ==
    /\ WorkerFailed /\ ~w.is_triage
    /\ message_queue # <<>>

\* the responders a trigger is routed to, in the order they are alerted
RoutedTo(trigger) ==
    IF RESPONDERS[trigger] # "" THEN <<RESPONDERS[trigger]>> ELSE all_responders

\* the router has finished the handler of a trigger
Dispatched == r.pc = "done" /\ r.trigger # ""

FailedSends == {i \in 1..Len(r.sent) : r.sent[i].kind = "send_error"}

\* C23: whichever sends of a dispatch fail, the handler has addressed the
\* sender twice and then every routed responder in order, each routed
\* responder's Last-Dispatch-To names the sender, the session is registered
\* and a non-empty context is queued for triage
C23_FailuresDoNotAbort ==
    Dispatched =>
        /\ [i \in 1..Len(r.sent) |-> r.sent[i].to]
              = <<r.sender, r.sender>> \o RoutedTo(r.trigger)
        /\ \A i \in 1..Len(r.sent) :
              r.sent[i].kind \in
                 {"send_error", IF i = 1 THEN "sos_ack"
                                ELSE IF i = 2 THEN "sos_safety_note" ELSE "dispatch"}
        /\ \A x \in Range(RoutedTo(r.trigger)) :
              Has(last_dispatch_to, x) /\ last_dispatch_to[x] = r.sender
        /\ Has(active_sessions, r.sender)
        /\ active_sessions[r.sender].trigger = r.trigger
        /\ "sos_dispatch" \in Range(r.audit)
        /\ r.context # <<>> =>
              message_queue # <<>>
              /\ message_queue[Len(message_queue)] = Item(r.sender, r.context, TRUE)

\* a dispatch to every responder in which every one of the five sends failed
C23_Witness ==
    /\ Dispatched /\ r.trigger = "!sos"
    /\ FailedSends = 1..5
    /\ Has(active_sessions, "!n1")

\* C24: no sender's stored conversation history holds more than 4 entries
C24_HistoryCapped ==
    \A sid \in DOMAIN conversation_history :
        Len(conversation_history[sid]) <= HISTORY_LIMIT

\* the router has finished the handler of a general message: plain text of an
\* unrestricted citizen that has no session
GeneralHandled ==
    /\ r.pc = "done" /\ r.msg = <<"hello">>
    /\ r.rx = <<>> /\ ~Has(active_sessions, r.sender)

BusyNotice(to) == Msg(to, "busy")

GeneralItems == {i \in 1..Len(message_queue) : ~message_queue[i].is_triage}

\* C25: the depth test sends a general message on to the queue exactly when
\* the depth it reads is at most 15; an accepted message is appended and gets no
\* reply, a rejected one gets exactly the busy notice and leaves the queue as
\* it was; with nobody consuming, the queue never holds more than 16 general
\* items, and a "!sos" of an unrestricted sender behind a full queue is
\* acknowledged, dispatched to every responder and given a session
C25_DepthGate ==
    /\ [][(r.pc = "general_gate" /\ r' # r) =>
            /\ r'.depth = Len(message_queue)
            /\ r'.pc = IF Len(message_queue) <= 15 THEN "general_put" ELSE "busy"]_vars
    /\ [](GeneralHandled =>
            \/ /\ r.depth <= 15
               /\ r.sent = <<>>
               /\ message_queue # <<>>
               /\ message_queue[Len(message_queue)] = Item(r.sender, r.msg, FALSE)
            \/ /\ r.depth > 15
               /\ r.sent = <<BusyNotice(r.sender)>>
               /\ Len(message_queue) = r.depth)
    /\ [](Cardinality(GeneralItems) <= 16)
    /\ []((r.pc = "done" /\ r.msg = <<"!sos">> /\ r.rx = <<>>) =>
            /\ r.sent = <<Msg(r.sender, "sos_ack"), Msg(r.sender, "sos_safety_note"),
                          Msg(POLICE, "dispatch"), Msg(FIRE, "dispatch"),
                          Msg(EMS, "dispatch")>>
            /\ Has(active_sessions, r.sender))

\* sixteen general messages are queued, the seventeenth was answered with the
\* busy notice and the "!sos" that followed from the same sender was dispatched
C25_Witness ==
    /\ Cardinality(GeneralItems) = 16
    /\ r.prev = [sender |-> "!n1", msg |-> <<"hello">>, sent |-> <<BusyNotice("!n1")>>]
    /\ r.pc = "done" /\ r.sender = "!n1" /\ r.msg = <<"!sos">>
    /\ Len(r.sent) = 5
    /\ Has(active_sessions, "!n1")

\* C26: when the shutdown sequence has finished no session is open
C26_NoSessionAfterShutdown ==
    main.pc = "offline" => DOMAIN active_sessions = {}

\* C27: every dispatch is assigned an incident number: the incident that a
\* dispatch opens carries one
C27_IncidentNumbered ==
    \A sid \in DOMAIN active_sessions :
        "incident" \in DOMAIN active_sessions[sid]

\* the responders the finished handler has addressed after the two messages
\* to the sender
Alerted == [i \in 1..(Len(r.sent) - 2) |-> r.sent[i + 2].to]

\* C28: a trigger with a responder of its own is sent to that responder only,
\* any other trigger to every configured responder in turn; Last-Dispatch-To
\* changes only in the entry of the responder just addressed, which is set to
\* the sender whatever it held before; the channel broadcast is the route only
\* when no responder is configured, which the responder table of the source
\* never is
C28_DispatchRouting ==
    /\ [](Dispatched =>
            /\ Alerted = (IF RESPONDERS[r.trigger] # "" THEN <<RESPONDERS[r.trigger]>>
                          ELSE <<POLICE, FIRE, EMS>>)
            /\ \A i \in DOMAIN Alerted : last_dispatch_to[Alerted[i]] = r.sender)
    /\ [][last_dispatch_to' # last_dispatch_to =>
            /\ r.sent # <<>>
            /\ last_dispatch_to' =
                  Put(last_dispatch_to, r.sent[Len(r.sent)].to, r.sender)
            /\ r.sent[Len(r.sent)].to \in
                  (IF RESPONDERS[r.trigger] # "" THEN {RESPONDERS[r.trigger]}
                   ELSE {POLICE, FIRE, EMS})]_vars
    /\ [](\A t \in DOMAIN RESPONDERS :
            route_stop(t) = "ds_channel" => all_responders = <<>>)
    /\ [](r.pc # "ds_channel")

\* the fire responder was dispatched to one citizen and then to another: its
\* entry now names the second, and no other responder has an entry
C28_Witness ==
    /\ Dispatched /\ r.sender = "!n2" /\ r.trigger = "!fire"
    /\ r.prev.sender = "!n1" /\ Len(r.prev.sent) = 3 /\ r.prev.sent[3].to = FIRE
    /\ last_dispatch_to = Put(EmptyDict, FIRE, "!n2")

\* the watchdog closes the session of sid in this step
TimesOut(sid) ==
    /\ wd.pc = "close_next" /\ wd'.sid = sid /\ wd' # wd
    /\ Has(active_sessions, sid) /\ ~Has(active_sessions', sid)

\* C29: a session the watchdog closes as timed out has, at the moment it is
\* closed, a last_activity more than the triage timeout in the past
C29_TimeoutOnlyWhenStale ==
    [][\A sid \in Citizens :
          TimesOut(sid) => now - active_sessions[sid].last_activity > TRIAGE_TIMEOUT]_vars

\* C30: in the transcript of a session opened with a context the second
\* entry is the operator's first reply
C30_HeadIsStatementAndReply ==
    \A sid \in DOMAIN active_sessions :
        LET session == active_sessions[sid]
        IN (session.context # <<>> /\ Len(session.exchanges) >= 2) =>
              /\ session.exchanges[1].role = "citizen"
              /\ session.exchanges[2].role = "operator"

\* sid is on the restricted list before this step and not after it
Released(sid) ==
    /\ RIndex(sid) # 0
    /\ \A i \in DOMAIN restricted_list' : restricted_list'[i].sid # sid

LockedUntil(sid) == restricted_list[RIndex(sid)].locked_until

\* C31: a sender leaves the restricted list only in the gate step of its own
\* message or in the watchdog's expiry step, both later than the entry's expiry
\* time, or in the pop of a responder's numeric cancel that names it
C31_RestrictionLifecycle ==
    [][\A sid \in Citizens \cup {POLICE, FIRE, EMS} :
          Released(sid) =>
             \/ /\ r.pc = "gate" /\ r' # r /\ r.sender = sid
                /\ now > LockedUntil(sid)
             \/ /\ wd.pc = "pop_next" /\ wd' # wd
                /\ wd.t > LockedUntil(sid) /\ now > LockedUntil(sid)
             \/ /\ r.pc = "cancel_pop" /\ r' # r /\ r.target = sid
                /\ is_responder(r.sender) /\ isdigit(lower(r.msg))]_vars

\* the lockout of a restricted citizen has run out and its own next message
\* has taken it off the list
C31_Witness ==
    /\ r.pc # "idle" /\ r.sender = "!n1"
    /\ r.rx # <<>> /\ now > r.rx[1].locked_until
    /\ "restriction_expired" \in Range(r.audit)
    /\ RIndex("!n1") = 0

\* the labels of the responder-only block of on_receive
ResponderLabels ==
    {"spam_lookup", "spam_none", "spam_close", "spam_closed_note", "spam_restrict",
     "spam_notify_responder", "spam_notify_citizen",
     "cancel_scan", "cancel_empty", "cancel_store", "cancel_send", "cancel_get",
     "cancel_pop", "cancel_removed", "cancel_restored", "cancel_already",
     "cancel_invalid"}

\* the message is "!spam", "!cancel" or a number
ResponderToken ==
    \/ is_cmd(lower(r.msg), "!spam")
    \/ is_cmd(lower(r.msg), "!cancel")
    \/ isdigit(lower(r.msg))

\* C32: only a handler of a configured responder stands in the responder-only
\* block, and it goes there before the restriction gate, restricted or not; a
\* step of a handler of any other sender adds nobody to the restricted list,
\* takes nobody off it but the sender itself once its lockout is over, and
\* leaves every Pending-Cancel snapshot as it was
C32_ResponderOnly ==
    /\ [](r.pc \in ResponderLabels => is_responder(r.sender))
    /\ []((r.pc # "idle" /\ is_responder(r.sender)
              /\ (is_cmd(lower(r.msg), "!spam") \/ is_cmd(lower(r.msg), "!cancel")))
            => r.pc \in ResponderLabels \cup {"done"})
    /\ []((r.pc = "done" /\ ResponderCommand) =>
            \A i \in DOMAIN r.sent : r.sent[i] # RestrictedNotice(r.sender))
    /\ [][(r.pc # "idle" /\ ~is_responder(r.sender) /\ r' # r) =>
            /\ UNCHANGED pending_cancel
            /\ \/ UNCHANGED restricted_list
               \/ /\ restricted_list' = RWithout(r.sender)
                  /\ r.pc = "gate"
                  /\ now > LockedUntil(r.sender)]_vars

\* a responder that is itself on the restricted list has listed the
\* restrictions and lifted its own with a numeric reply
C32_Witness ==
    /\ r.pc = "done" /\ r.sender = FIRE /\ r.msg = <<"1">>
    /\ r.rx # <<>> /\ ~(now > r.rx[1].locked_until)
    /\ r.sent = <<Msg(FIRE, "removed_from_list"), Msg(FIRE, "access_restored")>>
    /\ RIndex(FIRE) = 0

\* C33: no responder node is ever on the restricted list
C33_OnlyCitizensRestricted ==
    \A i \in DOMAIN restricted_list : ~is_responder(restricted_list[i].sid)

\* the handler in progress serves a responder's number that lies outside the
\* snapshot the responder holds
OutsideSnapshot ==
    /\ r.pc # "idle" /\ is_responder(r.sender) /\ isdigit(lower(r.msg))
    /\ r.list # <<>>
    /\ DigitVal[lower(r.msg)[1]] \notin 1..Len(r.list)

InvalidNumber(to) == Msg(to, "invalid_number")

\* C34: a responder's number outside its snapshot is answered with exactly the
\* instruction to send !cancel again and no step of its handler changes a map
\* or the queue, so the snapshot is still the responder's; a valid number that
\* follows removes the sender the same snapshot names at that index
C34_InvalidKeepsSnapshot ==
    /\ []((OutsideSnapshot /\ r.pc = "done") =>
            /\ r.sent = <<InvalidNumber(r.sender)>>
            /\ Has(pending_cancel, r.sender)
            /\ pending_cancel[r.sender] = r.list)
    /\ [][(OutsideSnapshot /\ r' # r) => UNCHANGED <<maps, queue>>]_vars
    /\ []((r.pc = "cancel_pop" /\ r.prev.sender = r.sender
              /\ r.prev.sent = <<InvalidNumber(r.sender)>>) =>
            /\ pending_cancel[r.sender] = r.list
            /\ r.target = r.list[DigitVal[lower(r.msg)[1]]])

\* the responder answered its list of one with "0", was told to list again,
\* and its "1" then removed the listed citizen
C34_Witness ==
    /\ r.pc = "cancel_removed" /\ r.sender = POLICE /\ r.msg = <<"1">>
    /\ r.prev = [sender |-> POLICE, msg |-> <<"0">>, sent |-> <<InvalidNumber(POLICE)>>]
    /\ r.list = <<"!n1">> /\ r.target = "!n1"
    /\ RIndex("!n1") = 0

\* the restrict command has closed its target's session and has not yet put
\* the target on the restricted list or cleared its pending menu
HalfRestricted ==
    /\ r.pc \in {"spam_closed_note", "spam_restrict"}
    /\ r.sess # <<>>
    /\ RIndex(r.target) = 0 \/ Has(pending_911, r.target)

\* C35: neither the worker nor the watchdog takes a guarded step, reading or
\* writing the maps, while a restrict command is half done
C35_RestrictAtomic ==
    [][HalfRestricted =>
          /\ ~(w' # w /\ w.pc \in state_lock_worker)
          /\ ~(wd' # wd /\ wd.pc \in state_lock_watchdog)]_vars

\* ---------------------------------------------------------------------
\* The two locks.  Each task is outside every with-block ("out"), waiting
\* for state_lock ("want_state"), inside a with state_lock block
\* ("in_state"), inside it and waiting for log_lock in log_event
\* ("want_log_in"), inside it and writing the log ("log_in"), or in a
\* log_event called outside any block ("want_log", "log").

\* the tasks whose code calls log_event inside a with state_lock block:
\* is_restricted, called by the router, and the watchdog's expiry scan
LogsInside == {"router", "watchdog"}

At(t, place) == [locks EXCEPT !.at[t] = place]

\* a task reaches a with state_lock statement; it holds no lock there
with_state_lock_nested(t) ==
    /\ locks.at[t] \in {"out", "log"}
    /\ locks' = At(t, "want_state")

with_state_lock(t) ==
    /\ locks.at[t] = "out"
    /\ locks' = At(t, "want_state")

state_lock_acquire(t) ==
    /\ locks.at[t] = "want_state"
    /\ locks.state_lock = ""
    /\ locks' = [At(t, "in_state") EXCEPT !.state_lock = t]

state_lock_release(t) ==
    /\ locks.at[t] = "in_state"
    /\ locks' = [At(t, "out") EXCEPT !.state_lock = ""]

\* log_event reaches its with log_lock statement, from outside any block
\* or, for the tasks that do so, from inside a with state_lock block
log_event(t) ==
    \/ /\ locks.at[t] = "out"
       /\ locks' = At(t, "want_log")
    \/ /\ locks.at[t] = "in_state"
       /\ t \in LogsInside
       /\ locks' = At(t, "want_log_in")

log_lock_acquire(t) ==
    /\ locks.log_lock = ""
    /\ \/ /\ locks.at[t] = "want_log"
          /\ locks' = [At(t, "log") EXCEPT !.log_lock = t]
       \/ /\ locks.at[t] = "want_log_in"
          /\ locks' = [At(t, "log_in") EXCEPT !.log_lock = t]

\* the line is written and log_event returns
log_lock_release(t) ==
    /\ locks.log_lock = t
    /\ \/ /\ locks.at[t] = "log"
          /\ locks' = [At(t, "out") EXCEPT !.log_lock = ""]
       \/ /\ locks.at[t] = "log_in"
          /\ locks' = [At(t, "in_state") EXCEPT !.log_lock = ""]

LockFrame == UNCHANGED <<clock, packets, queue, maps, r, w, wd, main>>

NextLocks ==
    \/ \E t \in Tasks : with_state_lock(t) /\ LockFrame
    \/ \E t \in Tasks : state_lock_acquire(t) /\ LockFrame
    \/ \E t \in Tasks : state_lock_release(t) /\ LockFrame
    \/ \E t \in Tasks : log_event(t) /\ LockFrame
    \/ \E t \in Tasks : log_lock_acquire(t) /\ LockFrame
    \/ \E t \in Tasks : log_lock_release(t) /\ LockFrame

SpecLocks == Init /\ [][NextLocks]_vars

\* C36: no task holds state_lock waiting for log_lock while another holds
\* log_lock waiting for state_lock; the holder of log_lock is writing the
\* log and waits for nothing, so it can always release
C36_NoDeadlock ==
    /\ ~\E t1, t2 \in Tasks :
          /\ t1 # t2
          /\ locks.state_lock = t1 /\ locks.at[t1] = "want_log_in"
          /\ locks.log_lock = t2 /\ locks.at[t2] = "want_state"
    /\ \A t \in Tasks :
          locks.log_lock = t =>
             /\ locks.at[t] \in {"log", "log_in"}
             /\ ENABLED (log_lock_release(t) /\ LockFrame)

\* the watchdog holds state_lock and waits for log_lock, which the worker
\* holds, while the router waits for state_lock
C36_Witness ==
    /\ locks.state_lock = "watchdog" /\ locks.at["watchdog"] = "want_log_in"
    /\ locks.log_lock = "worker" /\ locks.at["worker"] = "log"
    /\ locks.at["router"] = "want_state"

\* C37: the worker transmits a triage reply only to a sender whose session
\* is open at the moment of the send
C37_NoReplyAfterClose ==
    [][(w.pc = "transmit" /\ w.is_triage /\ w'.sent # w.sent) =>
          Has(active_sessions, w.sender)]_vars

MaxFairPackets == 3

InboundFair ==
    {Packet("!n1", text, now) : text \in {<<"!fire", "stove">>, <<"hello">>, <<"!safe">>}}

ReceiveFair ==
    /\ packets < MaxFairPackets
    /\ \E p \in InboundFair : on_receive(p)

NextFair ==
    \/ ReceiveFair \/ router_return
    \/ gate \/ p911_get
    \/ safe_close \/ safe_notify_target \/ safe_ack \/ safe_none
    \/ ds_ack \/ ds_safety \/ ds_target \/ ds_target_ldt \/ ds_session \/ ds_enqueue
    \/ triage_check \/ triage_put \/ general_gate \/ general_put
    \/ worker_get \/ worker_return
    \/ triage_begin \/ triage_store \/ general_begin \/ general_store
    \/ LlmReturns \/ transmit \/ worker_error

\* one pass of ai_worker's while True loop, step by step
ai_worker ==
    \/ worker_get \/ worker_return
    \/ triage_begin \/ triage_store \/ general_begin \/ general_store
    \/ LlmReturns \/ transmit \/ worker_error

SpecFair == Init /\ [][NextFair]_vars /\ WF_vars(ai_worker)

\* C39: every item put on the queue is taken by the worker and marked done
\* once: the unfinished count is the waiting items plus the one in work, an
\* item in work ends with one task_done, all queued work is eventually done,
\* and a worker whose item raised comes back to take the next one
C39_EveryItemDone ==
    /\ [](unfinished = Len(message_queue)
                          + (IF w.pc \in {"idle", "done"} THEN 0 ELSE 1))
    /\ [](w.dones = (IF w.pc = "done" THEN 1 ELSE 0))
    /\ (unfinished > 0) ~> (unfinished = 0)
    /\ (w.pc = "error") ~> (w.pc = "idle")

\* an item whose model call raised has been marked done while a later item
\* waits in the queue
C39_Witness ==
    /\ w.pc = "done" /\ "ai_worker_error" \in Range(w.audit)
    /\ w.dones = 1
    /\ message_queue # <<>> /\ unfinished = Len(message_queue)

\* the worker holds a triage item whose sender has no open session
NoSessionItem == w.is_triage /\ ~Has(active_sessions, w.sender)

\* C40: a triage item taken when its sender has no session is discarded in
\* the first block: the step marks it done once and ends the item, with no
\* model call, no send, no audit line and no change to the maps or the queue
C40_NoSessionItemDiscarded ==
    [][(w.pc = "triage_begin" /\ NoSessionItem /\ w' # w) =>
          /\ w'.pc = "done" /\ w'.dones = 1
          /\ w'.sent = <<>> /\ w'.audit = <<>>
          /\ unfinished' = unfinished - 1
          /\ UNCHANGED <<message_queue, maps>>]_vars

\* the citizen's "!safe" closed the session before the worker took the
\* session's first item, and the worker has dropped that item
C40_Witness ==
    /\ TriageItemDone /\ TriageDropped /\ w.dones = 1
    /\ ~Has(active_sessions, w.sender)
    /\ unfinished = Len(message_queue)

====
